---- MODULE Spec2Model ----
(***************************************************************************)
(* Model of the ingestion pipeline core of nexus:                          *)
(*   - the batch orchestrators ingest_youtube / ingest_hackernews and the  *)
(*     per-item coroutines _process_video / _process_story                 *)
(*     (tools/ingest_youtube.py, tools/ingest_hackernews.py);              *)
(*   - the dedup store seen_hashes (tools/storage.py);                     *)
(*   - the embedded SQLite writer DatabaseWriter (tools/database.py).      *)
(* Every awaited call of a coroutine is one step of the model: the event   *)
(* loop can switch tasks exactly at the awaits.                            *)
(***************************************************************************)
EXTENDS Integers, Sequences, FiniteSets, TLC

(***************************************************************************)
(* Bounds of the model.                                                    *)
(***************************************************************************)
NumItems == 2        \* items of one discovered batch
MaxWorkers == 2      \* largest configured worker budget
MaxContent == 2      \* fetched texts are 0..MaxContent, 0 is the empty text
DigestSpace == 2     \* number of distinct digests (many-to-one, as any digest)
NumDbWorkers == 2    \* tasks sharing one DatabaseWriter connection
MaxUrl == 2          \* URLs of direct writer/store calls are 0..MaxUrl, 0 is ""
MaxSequence == 3     \* largest AUTOINCREMENT value a content table hands out
MaxLogRows == 2      \* rows the ingestion_logs table can take
NumNotionWorkers == 2 \* pipeline tasks that share one hosted-API writer
MaxNotionUrl == 2    \* URLs written through the hosted-API writer
MaxPages == 2        \* pages a Notion database can take
MaxRows == 3         \* rows a content table holds when it is queried
MaxExport == 2       \* entries the migration exports from one Notion database
MaxLimit == 3        \* largest `limit` of a get_recent_* call
MaxRate == 2         \* largest `rate` of a RateLimiter
MaxPeriod == 3       \* largest `period` of a RateLimiter, in clock ticks
MaxTime == 6         \* last reading of time.monotonic(), in clock ticks
NumCallers == 3      \* tasks calling RateLimiter.acquire
NumStoreWorkers == 2 \* worker tasks calling the dedup store at once
MaxTasks == 2        \* tasks the caller created before the batch call

VARIABLES
    pipeline,      \* "youtube" (ingest_youtube) or "hackernews" (ingest_hackernews)
    workers,       \* the `workers` argument of the batch call
    nItems,        \* len(videos) / len(stories)
    url,           \* url[i]: URL of item i of the discovered list
    semaphore,     \* free permits of the asyncio.Semaphore admission gate
    pc,            \* pc[i]: the await item i's task is at
    text,          \* text[i]: transcript / article text returned by the fetch
    changed,       \* changed[i]: what has_changed answered: "unknown", "yes", "no"
    summary_text,  \* summary_text[i]: "unset", "llm" or "fallback"
    stages,        \* stages[i]: collaborator calls item i awaited to their end, in order
    logs,          \* logs[i]: <<action, result>> rows log_event inserted for item i
    failed,        \* failed[i]: collaborator calls of item i that raised
    results,       \* results[i]: outcome of task i as gather collects it
    blockedOrder,  \* items whose fetch was classified as blocked, in time order
    lateStart,     \* items admitted to their fetch after a blocked detection
    seen_hashes,   \* rows <<url, content_hash>> of the seen_hashes table
    db_connection, \* storage._db_connection: "closed" (None) or "open"
    batchPc,       \* "gather", "finally" or "done"
    tryOutcome,    \* what the try block of the batch call returned or raised
    outcome,       \* what the batch call delivered to its caller
    cleaned,       \* cleanup steps of the finally block that completed
    history,       \* summaries of the finished earlier runs
    storeCall,     \* the last call made on the dedup store API and its result
    lastMarked,    \* lastMarked[u]: hash of the latest mark_processed(u, .) call
    tables,        \* tables[t]: rows of content table t as the connection sees them
    sqlite_sequence, \* sqlite_sequence[t]: largest AUTOINCREMENT id table t has used
    dbPc,          \* dbPc[w]: where worker w is inside DatabaseWriter.upsert_*
    cursor,        \* cursor[w]: the statement worker w executed and its RETURNING id
    returned,      \* returned[w]: the last upsert call worker w completed
    inserted,      \* inserted[t][u]: id RETURNING gave the statement that inserted u, or 0
    lastUpsert,    \* lastUpsert[t][u]: title of the latest upsert statement executed for u
    ingestion_logs, \* rows of the ingestion_logs table, in insertion order
    fts,           \* fts[t]: the documents the FTS5 index of table t holds, by rowid
    queryResult,   \* the last get_recent_* / search_* call and the rows it returned
    rate,          \* RateLimiter.rate
    period,        \* RateLimiter.period, in clock ticks
    limiter_semaphore, \* free permits of RateLimiter._semaphore
    tokens,        \* RateLimiter.tokens: grant timestamps, oldest first
    monotonic,     \* the current reading of time.monotonic()
    acquirePc,     \* acquirePc[c]: where caller c is inside acquire()
    wakeAt,        \* wakeAt[c]: when the asyncio.sleep of caller c is due
    grants,        \* grants[k]: number of acquire() calls that returned at time k
    single,        \* the frame of one ingest_youtube_url_async call
    notion_pages,  \* notion_pages[db]: the pages of a Notion database, oldest first
    notionCall,    \* notionCall[w]: the NotionWriter method call task w is in
    remote,        \* remote[w]: the remote request of task w that is in progress
    migration,     \* the migration script's position, its exports and the first run's result
    durable,       \* the content and log rows that have been committed
    loop,          \* the task whose synchronous code holds the event-loop thread, or 0
    callPc,        \* where one ingest_youtube call is, seen from its caller's event loop
    all_tasks,     \* asyncio.all_tasks() without the call's own task: origin and state of each
    executor,      \* collector._executor and its pool: "none", "running" or "shutdown"
    callExit,      \* how the ingest_youtube call ended: "none", "0", "count" or the exception
    getConnPc,     \* getConnPc[w]: the await worker w is at inside has_changed / get_conn
    connections,   \* the aiosqlite connections to the store that are open, by opener
    shared_connection, \* storage._db_connection: None or the connection it refers to
    conn,          \* conn[w]: the connection worker w holds in a local, or None
    queue,         \* queue[c]: statements sent to connection c and not yet executed
    seen_table,    \* whether the seen_hashes table exists in the store
    selected       \* selected[w]: what the SELECT of worker w met: "none", "row", "no such table"

pipeVars == <<pipeline, workers, nItems, url, semaphore, pc, text, changed,
              summary_text, stages, logs, failed, results, blockedOrder,
              lateStart, seen_hashes, db_connection, batchPc, tryOutcome,
              outcome, cleaned, history>>

storeVars == <<storeCall, lastMarked>>

auxDbVars == <<ingestion_logs, fts, queryResult>>

dbVars == <<tables, sqlite_sequence, dbPc, cursor, returned, inserted, lastUpsert,
           auxDbVars>>

rateVars == <<rate, period, limiter_semaphore, tokens, monotonic, acquirePc,
              wakeAt, grants>>

notionVars == <<notion_pages, notionCall, remote, loop>>

lifeVars == <<callPc, all_tasks, executor, callExit>>

connVars == <<getConnPc, connections, shared_connection, conn, queue, seen_table, selected>>

sysVars == <<lifeVars, connVars>>

extVars == <<single, notionVars, migration, durable, sysVars>>

vars == <<pipeVars, storeVars, dbVars, rateVars, extVars>>

Items == 1..nItems
URLs == 1..NumItems
Contents == 0..MaxContent
None == -1

(***************************************************************************)
(* Exceptions of the fetch collaborator: type name and message (words).    *)
(***************************************************************************)
FetchErrors ==
    { [type |-> "IpBlocked",           msg |-> <<"Could", "not", "retrieve">>],
      [type |-> "RuntimeError",        msg |-> <<"429", "Too", "Many", "Requests">>],
      [type |-> "RuntimeError",        msg |-> <<"Rate", "Limit", "exceeded">>],
      [type |-> "TranscriptsDisabled", msg |-> <<"Subtitles", "are", "disabled">>] }

\* str.lower() on the words the messages are made of
Lower(w) ==
    CASE w = "Rate" -> "rate"
      [] w = "Limit" -> "limit"
      [] w = "Could" -> "could"
      [] w = "Too" -> "too"
      [] w = "Many" -> "many"
      [] w = "Requests" -> "requests"
      [] w = "Subtitles" -> "subtitles"
      [] OTHER -> w

LowerMsg(m) == [k \in 1..Len(m) |-> Lower(m[k])]

\* needle in haystack, on word sequences
Contains(m, needle) ==
    \E k \in 0..(Len(m) - Len(needle)) :
        \A j \in 1..Len(needle) : m[k + j] = needle[j]

\* ingest_youtube.py:200-205
is_blocked(e) ==
    \/ e.type = "IpBlocked"
    \/ Contains(e.msg, <<"429">>)
    \/ Contains(LowerMsg(e.msg), <<"rate", "limit">>)
    \/ Contains(LowerMsg(e.msg), <<"blocking">>)

\* utils.content_hash: a deterministic digest of the text
content_hash(t) == t % DigestSpace

(***************************************************************************)
(* Dedup store (tools/storage.py): the seen_hashes table as a set of rows. *)
(***************************************************************************)
\* SELECT content_hash FROM seen_hashes WHERE url = ?; fetchone()
get_stored_hash(rows, u) ==
    IF \E r \in rows : r[1] = u
    THEN (CHOOSE r \in rows : r[1] = u)[2]
    ELSE None

\* a store that never recognises a hash
has_changed_always(rows, u, new_hash) == TRUE

has_changed(rows, u, new_hash) == get_stored_hash(rows, u) # new_hash

\* INSERT OR IGNORE: an existing row keeps its old hash
mark_processed_ignore(rows, u, h) ==
    IF \E r \in rows : r[1] = u THEN rows ELSE rows \cup {<<u, h>>}

\* a plain INSERT into a table without the key on url
mark_processed_append(rows, u, h) == rows \cup {<<u, h>>}

\* INSERT ... ON CONFLICT(url) DO UPDATE SET content_hash = excluded.content_hash
mark_processed(rows, u, h) ==
    IF \E r \in rows : r[1] = u
    THEN {IF r[1] = u THEN <<u, h>> ELSE r : r \in rows}
    ELSE rows \cup {<<u, h>>}

(***************************************************************************)
(* The admission gate: asyncio.Semaphore(max(1, workers)) in ingest_youtube*)
(* and asyncio.Semaphore(workers) in ingest_hackernews.                    *)
(***************************************************************************)
Max(a, b) == IF a >= b THEN a ELSE b

SemaphoreValue(p, w) == IF p = "youtube" THEN Max(1, w) ELSE w

\* a gate that admits every task
locked_never(value) == FALSE

\* Semaphore.locked(): no permit is free
locked(value) == value <= 0

InFlight == {i \in Items : pc[i] \notin {"waiting", "done"}}

(***************************************************************************)
(* Helpers shared by the steps of _process_video / _process_story.         *)
(***************************************************************************)
\* the task of item i ends with result r; `async with semaphore` releases
Return(i, r) ==
    /\ pc' = [pc EXCEPT ![i] = "done"]
    /\ results' = [results EXCEPT ![i] = r]
    /\ semaphore' = semaphore + 1

Goto(i, where) ==
    /\ pc' = [pc EXCEPT ![i] = where]
    /\ UNCHANGED <<results, semaphore>>

\* await writer.log_event(url, action, result): inserts the row or raises
log_event(i, action, result, ok) ==
    /\ logs' = [logs EXCEPT ![i] = IF ok THEN Append(@, <<action, result>>) ELSE @]
    /\ failed' = [failed EXCEPT ![i] = IF ok THEN @ ELSE @ \cup {"log_event"}]

\* the awaited collaborator call returned
Returned(i, call) ==
    /\ stages' = [stages EXCEPT ![i] = Append(@, call)]
    /\ UNCHANGED failed

\* the awaited collaborator call raised
Raised(i, call) ==
    /\ stages' = [stages EXCEPT ![i] = Append(@, call)]
    /\ failed' = [failed EXCEPT ![i] = @ \cup {call}]

\* ingest_youtube.py:297-300, ingest_hackernews.py:203-206:
\* except Exception: return False
OuterExcept == "False"

\* every fetch error is raised as fatal
FetchFailure_always_fatal(blocked) == "Fatal"

\* ingest_youtube.py:207-222: raise FatalIngestionError when the fetch error
\* is classified as blocked, return False otherwise
FetchFailure(blocked) == IF blocked THEN "Fatal" ELSE "False"

\* the item is summarized whatever the dedup check answered
AfterHasChanged_never_skip(isChanged) == "summarize"

\* ingest_youtube.py:226-234: skip when the hash is unchanged
AfterHasChanged(isChanged) == IF isChanged THEN "summarize" ELSE "skip_log"

\* the except branch leaves the summary unset
FallbackSummary_unset == "unset"

\* ingest_youtube.py:251-253, ingest_hackernews.py:161-163: the except branch
\* of the summary substitutes the truncated fetched text
FallbackSummary == "fallback"

\* the dedup store is updated before the write
AfterSummaryLog_mark_first == "mark_processed"

\* ingest_youtube.py:260-271: after the summary try/except comes the upsert
AfterSummaryLog == "upsert"

\* the upsert's exception is swallowed
AfterUpsert_always_ok(ok) == "write_ok_log"

\* ingest_youtube.py:270-289: the upsert returned (ok) or raised
AfterUpsert(ok) == IF ok THEN "write_ok_log" ELSE "write_error_log"

\* ingest_youtube.py:280-289: log_event(write, ok) returned (ok) or raised
AfterLogWriteOk(ok) == IF ok THEN "mark_processed" ELSE "write_error_log"

\* the failed write is counted as a success
WriteErrorResult_counted == "True"

\* ingest_youtube.py:288-294, ingest_hackernews.py:196-202: the except branch
\* of the write logs (write, error) and returns False
WriteErrorResult == "False"

batchFrame == <<pipeline, workers, nItems, url, batchPc, tryOutcome, outcome,
                cleaned, history, storeVars, dbVars, rateVars, extVars>>

(***************************************************************************)
(* Steps of one item task.                                                 *)
(***************************************************************************)
\* async with semaphore: tasks reach the gate in list order and the
\* semaphore wakes its waiters first-in first-out
Acquire(i) ==
    /\ batchPc = "gather"
    /\ pc[i] = "waiting"
    /\ \A j \in Items : j < i => pc[j] # "waiting"
    /\ ~locked(semaphore)
    /\ semaphore' = semaphore - 1
    /\ pc' = [pc EXCEPT ![i] = "fetch"]
    /\ lateStart' = IF blockedOrder # <<>> THEN lateStart \cup {i} ELSE lateStart
    /\ UNCHANGED <<text, changed, summary_text, stages, logs, failed, results,
                   blockedOrder, seen_hashes, db_connection>>
    /\ UNCHANGED batchFrame

\* ingest_youtube.py:193-222: await fetch_transcript_text_async(video.url)
FetchTranscript(i) ==
    /\ pipeline = "youtube"
    /\ pc[i] = "fetch"
    /\ \/ \E t \in Contents :
            /\ text' = [text EXCEPT ![i] = t]
            /\ Returned(i, "fetch")
            /\ Goto(i, "has_changed")
            /\ UNCHANGED blockedOrder
       \/ \E e \in FetchErrors :
            /\ Raised(i, "fetch")
            /\ IF is_blocked(e)
               THEN /\ blockedOrder' = Append(blockedOrder, i)
                    /\ Goto(i, "fetch_blocked_log")
               ELSE /\ UNCHANGED blockedOrder
                    /\ Goto(i, "fetch_error_log")
            /\ UNCHANGED text
    /\ UNCHANGED <<changed, summary_text, logs, lateStart, seen_hashes, db_connection>>
    /\ UNCHANGED batchFrame

\* ingest_hackernews.py:116-123: text = await fetch_article_text(story.url);
\* an exception of the fetch reaches the outer except
FetchArticle(i) ==
    /\ pipeline = "hackernews"
    /\ pc[i] = "fetch"
    /\ \/ \E t \in Contents \cup {None} :
            /\ text' = [text EXCEPT ![i] = t]
            /\ Returned(i, "fetch")
            /\ IF t = None \/ t = 0
               THEN Goto(i, "fetch_error_log")
               ELSE Goto(i, "has_changed")
       \/ /\ Raised(i, "fetch")
          /\ Return(i, OuterExcept)
          /\ UNCHANGED text
    /\ UNCHANGED <<changed, summary_text, logs, blockedOrder, lateStart, seen_hashes,
                   db_connection>>
    /\ UNCHANGED batchFrame

\* ingest_youtube.py:207-214: log, then raise FatalIngestionError
LogFetchBlocked(i) ==
    /\ pc[i] = "fetch_blocked_log"
    /\ \E ok \in BOOLEAN :
        /\ log_event(i, "fetch", "error", ok)
        /\ Return(i, IF ok THEN FetchFailure(TRUE) ELSE OuterExcept)
    /\ UNCHANGED <<text, changed, summary_text, stages, blockedOrder, lateStart,
                   seen_hashes, db_connection>>
    /\ UNCHANGED batchFrame

\* ingest_youtube.py:216-222, ingest_hackernews.py:117-123
LogFetchError(i) ==
    /\ pc[i] = "fetch_error_log"
    /\ \E ok \in BOOLEAN :
        /\ log_event(i, "fetch", "error", ok)
        /\ Return(i, IF ok THEN FetchFailure(FALSE) ELSE OuterExcept)
    /\ UNCHANGED <<text, changed, summary_text, stages, blockedOrder, lateStart,
                   seen_hashes, db_connection>>
    /\ UNCHANGED batchFrame

\* ingest_youtube.py:225-226: content_hash, await has_changed(url, hash)
HasChanged(i) ==
    /\ pc[i] = "has_changed"
    /\ \/ /\ Returned(i, "has_changed")
          /\ changed' = [changed EXCEPT ![i] =
                IF has_changed(seen_hashes, url[i], content_hash(text[i]))
                THEN "yes" ELSE "no"]
          /\ Goto(i, AfterHasChanged(changed'[i] = "yes"))
       \/ /\ Raised(i, "has_changed")
          /\ Return(i, OuterExcept)
          /\ UNCHANGED changed
    /\ db_connection' = "open"
    /\ UNCHANGED <<text, summary_text, logs, blockedOrder, lateStart, seen_hashes>>
    /\ UNCHANGED batchFrame

\* ingest_youtube.py:227-232
LogSkip(i) ==
    /\ pc[i] = "skip_log"
    /\ \E ok \in BOOLEAN :
        /\ log_event(i, "fetch", "skip", ok)
        /\ Return(i, IF ok THEN "False" ELSE OuterExcept)
    /\ UNCHANGED <<text, changed, summary_text, stages, blockedOrder, lateStart,
                   seen_hashes, db_connection>>
    /\ UNCHANGED batchFrame

\* ingest_youtube.py:235-246, 251-253: await summarizer.summarize_video(...)
Summarize(i) ==
    /\ pc[i] = "summarize"
    /\ \/ /\ Returned(i, "summarize")
          /\ summary_text' = [summary_text EXCEPT ![i] = "llm"]
          /\ Goto(i, "summarize_ok_log")
       \/ /\ Raised(i, "summarize")
          /\ summary_text' = [summary_text EXCEPT ![i] = FallbackSummary]
          /\ Goto(i, "summarize_error_log")
    /\ UNCHANGED <<text, changed, logs, blockedOrder, lateStart, seen_hashes,
                   db_connection>>
    /\ UNCHANGED batchFrame

\* ingest_youtube.py:248: the log call sits inside the try of the summary
LogSummarizeOk(i) ==
    /\ pc[i] = "summarize_ok_log"
    /\ \E ok \in BOOLEAN :
        /\ log_event(i, "summarize", "ok", ok)
        /\ IF ok
           THEN /\ Goto(i, AfterSummaryLog)
                /\ UNCHANGED summary_text
           ELSE /\ Goto(i, "summarize_error_log")
                /\ summary_text' = [summary_text EXCEPT ![i] = FallbackSummary]
    /\ UNCHANGED <<text, changed, stages, blockedOrder, lateStart, seen_hashes,
                   db_connection>>
    /\ UNCHANGED batchFrame

\* ingest_youtube.py:254: a raise here reaches the outer except
LogSummarizeError(i) ==
    /\ pc[i] = "summarize_error_log"
    /\ \E ok \in BOOLEAN :
        /\ log_event(i, "summarize", "error", ok)
        /\ IF ok THEN Goto(i, AfterSummaryLog) ELSE Return(i, OuterExcept)
    /\ UNCHANGED <<text, changed, summary_text, stages, blockedOrder, lateStart,
                   seen_hashes, db_connection>>
    /\ UNCHANGED batchFrame

\* ingest_youtube.py:270-279: await writer.upsert_video(...)
Upsert(i) ==
    /\ pc[i] = "upsert"
    /\ \E ok \in BOOLEAN :
        /\ IF ok THEN Returned(i, "upsert") ELSE Raised(i, "upsert")
        /\ Goto(i, AfterUpsert(ok))
    /\ UNCHANGED <<text, changed, summary_text, logs, blockedOrder, lateStart,
                   seen_hashes, db_connection>>
    /\ UNCHANGED batchFrame

\* ingest_youtube.py:280
LogWriteOk(i) ==
    /\ pc[i] = "write_ok_log"
    /\ \E ok \in BOOLEAN :
        /\ log_event(i, "write", "ok", ok)
        /\ Goto(i, AfterLogWriteOk(ok))
    /\ UNCHANGED <<text, changed, summary_text, stages, blockedOrder, lateStart,
                   seen_hashes, db_connection>>
    /\ UNCHANGED batchFrame

\* ingest_youtube.py:281-287: await mark_processed(url, hash); return True
MarkProcessed(i) ==
    /\ pc[i] = "mark_processed"
    /\ \/ /\ seen_hashes' = mark_processed(seen_hashes, url[i], content_hash(text[i]))
          /\ Returned(i, "mark_processed")
          /\ Return(i, "True")
       \/ /\ Raised(i, "mark_processed")
          /\ Goto(i, "write_error_log")
          /\ UNCHANGED seen_hashes
    /\ db_connection' = "open"
    /\ UNCHANGED <<text, changed, summary_text, logs, blockedOrder, lateStart>>
    /\ UNCHANGED batchFrame

\* ingest_youtube.py:288-294
LogWriteError(i) ==
    /\ pc[i] = "write_error_log"
    /\ \E ok \in BOOLEAN :
        /\ log_event(i, "write", "error", ok)
        /\ Return(i, IF ok THEN WriteErrorResult ELSE OuterExcept)
    /\ UNCHANGED <<text, changed, summary_text, stages, blockedOrder, lateStart,
                   seen_hashes, db_connection>>
    /\ UNCHANGED batchFrame

(***************************************************************************)
(* The dedup store API called directly (tools/storage.py).                 *)
(***************************************************************************)
Hashes == 0..(DigestSpace - 1)
StoreURLs == 0..MaxUrl

NoCall == [op |-> "none", url |-> 0, hash |-> None, ret |-> None, changed |-> FALSE]

\* storage.py:25-36: every call goes through get_conn, which opens on demand
get_conn(c) == "open"

\* storage.py:47-51
GetStoredHashCall(u) ==
    /\ db_connection' = get_conn(db_connection)
    /\ storeCall' = [op |-> "get_stored_hash", url |-> u, hash |-> None,
                     ret |-> get_stored_hash(seen_hashes, u), changed |-> FALSE]
    /\ UNCHANGED <<seen_hashes, lastMarked>>

\* storage.py:54-56
HasChangedCall(u, h) ==
    /\ db_connection' = get_conn(db_connection)
    /\ storeCall' = [op |-> "has_changed", url |-> u, hash |-> h,
                     ret |-> get_stored_hash(seen_hashes, u),
                     changed |-> has_changed(seen_hashes, u, h)]
    /\ UNCHANGED <<seen_hashes, lastMarked>>

\* storage.py:59-65
MarkProcessedCall(u, h) ==
    /\ db_connection' = get_conn(db_connection)
    /\ seen_hashes' = mark_processed(seen_hashes, u, h)
    /\ lastMarked' = [lastMarked EXCEPT ![u] = h]
    /\ storeCall' = [op |-> "mark_processed", url |-> u, hash |-> h,
                     ret |-> None, changed |-> FALSE]

\* storage.py:39-44
CloseDb ==
    /\ db_connection = "open"
    /\ db_connection' = "closed"
    /\ storeCall' = [NoCall EXCEPT !.op = "close_db"]
    /\ UNCHANGED <<seen_hashes, lastMarked>>

StoreUnused ==
    /\ storeCall = NoCall
    /\ lastMarked = [u \in StoreURLs |-> None]

(***************************************************************************)
(* The embedded writer (tools/database.py): content tables videos and      *)
(* articles, each a sequence of rows in insertion order.  Workers share    *)
(* the single connection; the event loop can switch between the awaits of  *)
(* an upsert: execute, fetchone, commit.                                   *)
(***************************************************************************)
Tables == {"videos", "articles"}
DbWorkers == 1..NumDbWorkers
DbURLs == 0..MaxUrl
Titles == {"First Video", "Second Video"}

NoCursor == [table |-> "none", url |-> 0, id |-> 0]

HasUrl(rows, u) == \E k \in 1..Len(rows) : rows[k].url = u

\* CONSTRAINT url_not_empty CHECK (length(url) > 0)
url_not_empty(u) == u # 0

\* the arguments of the upsert call made with a title: the two calls differ
\* in every argument but the URL
UpsertArgs(title) ==
    IF title = "First Video"
    THEN [title |-> title, thumbnail |-> "thumb1.jpg", summary |-> "First summary",
          body |-> "First body", source |-> "Channel A", published_iso |-> 1,
          last_updated_iso |-> 1, now |-> 1]
    ELSE IF title = "Second Video"
    THEN [title |-> title, thumbnail |-> "thumb2.jpg", summary |-> "Second summary",
          body |-> "Second body", source |-> "Channel B", published_iso |-> 2,
          last_updated_iso |-> 2, now |-> 2]
    ELSE \* a record whose publish date could not be determined
         [title |-> title, thumbnail |-> "thumb3.jpg", summary |-> "Undated summary",
          body |-> "Undated body", source |-> "Channel C", published_iso |-> None,
          last_updated_iso |-> 3, now |-> 3]

\* database.py:201-202 / 245-246: the row INSERT proposes (`excluded`);
\* created_at is not listed and takes its DEFAULT (datetime('now'))
Excluded(t, u, a) ==
    IF t = "videos"
    THEN [url |-> u, title |-> a.title, thumbnail_url |-> a.thumbnail,
          summary |-> a.summary, source |-> a.source,
          published_at |-> a.published_iso, last_updated_at |-> a.last_updated_iso,
          created_at |-> a.now, updated_at |-> a.now]
    ELSE [url |-> u, title |-> a.title, summary |-> a.summary, body |-> a.body,
          source |-> a.source,
          published_at |-> a.published_iso, last_updated_at |-> a.last_updated_iso,
          created_at |-> a.now, updated_at |-> a.now]

\* only the title is overwritten on conflict
UpdateSet_title_only(t) == {"title"}

\* database.py:203-210 / 247-254: the columns of DO UPDATE SET
UpdateSet(t) ==
    IF t = "videos"
    THEN {"title", "thumbnail_url", "summary", "source", "published_at",
          "last_updated_at", "updated_at"}
    ELSE {"title", "summary", "body", "source", "published_at",
          "last_updated_at", "updated_at"}

\* the inserted row: the proposed values and the next AUTOINCREMENT id
NewRow(new, id) ==
    [c \in DOMAIN new \cup {"id"} |-> IF c = "id" THEN id ELSE new[c]]

\* a plain INSERT, without the ON CONFLICT clause
UpsertStatement_insert_only(t, rows, seq, u, title) ==
    Append(rows, NewRow(Excluded(t, u, UpsertArgs(title)), seq + 1))

\* INSERT INTO t (url, title, ...) VALUES (...)
\* ON CONFLICT(url) DO UPDATE SET title = excluded.title, ...
UpsertStatement(t, rows, seq, u, title) ==
    LET new == Excluded(t, u, UpsertArgs(title)) IN
    IF HasUrl(rows, u)
    THEN [k \in 1..Len(rows) |->
            IF rows[k].url = u
            THEN [c \in DOMAIN rows[k] |->
                    IF c \in UpdateSet(t) THEN new[c] ELSE rows[k][c]]
            ELSE rows[k]]
    ELSE Append(rows, NewRow(new, seq + 1))

\* AUTOINCREMENT: SQLite draws the next rowid before it detects the conflict
\* on url, so the sequence moves with every statement that completes,
\* whether it inserts or updates
NextSequence(rows, seq, u) == seq + 1

\* the id of the newest row, whatever row the statement touched
ReturningId_last(rows, u) == rows[Len(rows)].id

\* RETURNING id
ReturningId(rows, u) == rows[CHOOSE k \in 1..Len(rows) : rows[k].url = u].id

\* database.py:200-212 / 244-256: cursor = await self._conn.execute(...)
UpsertExecute(w, t, u, title) ==
    /\ dbPc[w] = "idle"
    /\ sqlite_sequence[t] < MaxSequence
    /\ IF url_not_empty(u)
       THEN /\ tables' = [tables EXCEPT ![t] = UpsertStatement(t, @, sqlite_sequence[t], u, title)]
            /\ lastUpsert' = [lastUpsert EXCEPT ![t][u] = title]
            /\ inserted' = [inserted EXCEPT ![t][u] =
                            IF HasUrl(tables[t], u) THEN @ ELSE ReturningId(tables'[t], u)]
            /\ sqlite_sequence' = [sqlite_sequence EXCEPT ![t] = NextSequence(tables[t], @, u)]
            /\ cursor' = [cursor EXCEPT ![w] =
                            [table |-> t, url |-> u, id |-> ReturningId(tables'[t], u)]]
            /\ dbPc' = [dbPc EXCEPT ![w] = "executed"]
            /\ returned' = [returned EXCEPT ![w] = NoCursor]
       ELSE \* IntegrityError: the call raises, nothing is written
            /\ returned' = [returned EXCEPT ![w] = [table |-> t, url |-> u, id |-> None]]
            /\ UNCHANGED <<tables, sqlite_sequence, cursor, dbPc, inserted, lastUpsert>>

\* database.py:214 / 258: row = await cursor.fetchone()
UpsertFetchone(w) ==
    /\ dbPc[w] = "executed"
    /\ dbPc' = [dbPc EXCEPT ![w] = "fetched"]
    /\ UNCHANGED <<tables, sqlite_sequence, cursor, returned, inserted, lastUpsert>>

\* database.py:215-216 / 259-260: await self._conn.commit(); return str(row[0])
UpsertCommit(w) ==
    /\ dbPc[w] = "fetched"
    /\ dbPc' = [dbPc EXCEPT ![w] = "idle"]
    /\ returned' = [returned EXCEPT ![w] = cursor[w]]
    /\ cursor' = [cursor EXCEPT ![w] = NoCursor]
    /\ UNCHANGED <<tables, sqlite_sequence, inserted, lastUpsert>>

\* the action column is not checked
action_valid_any(action) == TRUE

\* CONSTRAINT action_valid CHECK (action IN ('discover', 'fetch', 'summarize', 'write'))
action_valid(action) == action \in {"discover", "fetch", "summarize", "write"}

\* CONSTRAINT result_valid CHECK (result IN ('ok', 'skip', 'error'))
result_valid(result) == result \in {"ok", "skip", "error"}

\* every row is given the first id
NextLogId_restart(rows) == 1

\* AUTOINCREMENT of ingestion_logs: rows are only ever appended, so the
\* sequence is the id of the newest row
NextLogId(rows) == IF rows = <<>> THEN 1 ELSE rows[Len(rows)].id + 1

\* database.py:286-290: INSERT INTO ingestion_logs (...) VALUES (...) RETURNING id;
\* a CHECK that fails aborts the statement with IntegrityError
LogExecute(w, u, action, result) ==
    /\ dbPc[w] = "idle"
    /\ Len(ingestion_logs) < MaxLogRows
    /\ IF action_valid(action) /\ result_valid(result)
       THEN /\ ingestion_logs' = Append(ingestion_logs,
                    [id |-> NextLogId(ingestion_logs), item_url |-> u,
                     action |-> action, result |-> result])
            /\ cursor' = [cursor EXCEPT ![w] =
                    [table |-> "ingestion_logs", url |-> u, id |-> NextLogId(ingestion_logs)]]
            /\ dbPc' = [dbPc EXCEPT ![w] = "executed"]
            /\ returned' = [returned EXCEPT ![w] = NoCursor]
       ELSE /\ returned' = [returned EXCEPT ![w] =
                    [table |-> "ingestion_logs", url |-> u, id |-> None]]
            /\ UNCHANGED <<ingestion_logs, cursor, dbPc>>
    /\ UNCHANGED <<tables, sqlite_sequence, inserted, lastUpsert, fts, queryResult>>

NoQuery == [op |-> "none", table |-> "none", arg |-> 0, rows |-> <<>>]

\* the records the query callers have stored: the two titles and an undated one
Records == Titles \cup {"Undated Video"}

Limits == 0..MaxLimit

\* no publish time sorts before another
Later_never(a, b) == FALSE

\* published_at of a sorts before published_at of b under ORDER BY ... DESC:
\* NULL is the smallest value, so it comes last
Later(a, b) == a # None /\ (b = None \/ a > b)

RECURSIVE OrderByPublishedDesc(_)
\* ORDER BY published_at DESC; rows with equal keys stay in rowid order
OrderByPublishedDesc(rows) ==
    IF rows = <<>> THEN <<>>
    ELSE LET k == CHOOSE i \in 1..Len(rows) :
                    /\ \A j \in 1..Len(rows) : ~Later(rows[j].published_at, rows[i].published_at)
                    /\ \A j \in 1..(i - 1) : Later(rows[i].published_at, rows[j].published_at)
             rest == [j \in 1..(Len(rows) - 1) |-> IF j < k THEN rows[j] ELSE rows[j + 1]]
         IN  <<rows[k]>> \o OrderByPublishedDesc(rest)

\* LIMIT ?: a negative limit is no limit
Limit(rows, n) ==
    IF n < 0 \/ n >= Len(rows) THEN rows ELSE SubSeq(rows, 1, n)

\* database.py:307-326 / 337-356: SELECT ... ORDER BY published_at DESC LIMIT ?
GetRecent(t, limit) ==
    /\ queryResult' = [op |-> "get_recent", table |-> t, arg |-> limit,
                       rows |-> Limit(OrderByPublishedDesc(tables[t]), limit)]
    /\ UNCHANGED <<tables, sqlite_sequence, dbPc, cursor, returned, inserted, lastUpsert,
                   ingestion_logs, fts>>

\* the unicode61 tokens of the texts the callers store, lower-cased
Tokens(txt) ==
    CASE txt = "First Video" -> {"first", "video"}
      [] txt = "Second Video" -> {"second", "video"}
      [] txt = "Undated Video" -> {"undated", "video"}
      [] txt = "First summary" -> {"first", "summary"}
      [] txt = "Second summary" -> {"second", "summary"}
      [] txt = "Undated summary" -> {"undated", "summary"}
      [] txt = "First body" -> {"first", "body"}
      [] txt = "Second body" -> {"second", "body"}
      [] txt = "Undated body" -> {"undated", "body"}
      [] OTHER -> {}

\* database.py:99-105 / 139-145: the columns an FTS5 table indexes
FtsColumns(t) == IF t = "videos" THEN {"title", "summary"} ELSE {"title", "summary", "body"}

\* the tokens of a content row that its index entry holds
FtsDocument(t, row) ==
    [rowid |-> row.id, tokens |-> UNION {Tokens(row[c]) : c \in FtsColumns(t)}]

Queries == {"first", "video"}

\* database.py:369-389 / 402-423: SELECT ... FROM videos v JOIN videos_fts fts
\* ON v.id = fts.rowid WHERE videos_fts MATCH ?: the match is decided by the
\* index, the columns returned are those of the content row
Match(t, query) ==
    SelectSeq(tables[t], LAMBDA row :
        \E d \in fts[t] : d.rowid = row.id /\ query \in d.tokens)

Search(t, query) ==
    /\ queryResult' = [op |-> "search", table |-> t, arg |-> query, rows |-> Match(t, query)]
    /\ UNCHANGED <<tables, sqlite_sequence, dbPc, cursor, returned, inserted, lastUpsert,
                   ingestion_logs, fts>>

\* database.py:45-56: a connected writer on a new database file
DbConnected ==
    /\ tables = [t \in Tables |-> <<>>]
    /\ sqlite_sequence = [t \in Tables |-> 0]
    /\ dbPc = [w \in DbWorkers |-> "idle"]
    /\ cursor = [w \in DbWorkers |-> NoCursor]
    /\ returned = [w \in DbWorkers |-> NoCursor]
    /\ inserted = [t \in Tables |-> [u \in DbURLs |-> 0]]
    /\ lastUpsert = [t \in Tables |-> [u \in DbURLs |-> "none"]]
    /\ ingestion_logs = <<>>
    /\ fts = [t \in Tables |-> {}]
    /\ queryResult = NoQuery

(***************************************************************************)
(* Transactions on the writer's single connection.  The connection is      *)
(* opened with the default isolation level: the first INSERT opens a        *)
(* transaction, every later statement of any worker joins it, and          *)
(* commit() makes all of it durable.  `durable` is what a crash or another *)
(* connection would find.  Each worker makes one call, for its own URL.    *)
(***************************************************************************)
NothingDurable == [tables |-> [t \in Tables |-> <<>>], ingestion_logs |-> <<>>]

\* database.py:215 / 259 / 293: await self._conn.commit() commits the
\* connection's open transaction, whoever executed its statements
Commit == [tables |-> tables, ingestion_logs |-> ingestion_logs]

\* database.py:214-216, 292-294: fetchone and commit returned
TxnCommit(w) ==
    /\ UpsertCommit(w)
    /\ durable' = Commit
    /\ UNCHANGED auxDbVars

\* database.py:214-215, 292-293: fetchone or commit raises (for example
\* "database is locked"); the method has no except and no rollback, so its
\* statement stays in the connection's open transaction
TxnRaise(w) ==
    /\ dbPc[w] \in {"executed", "fetched"}
    /\ dbPc' = [dbPc EXCEPT ![w] = "idle"]
    /\ returned' = [returned EXCEPT ![w] = [cursor[w] EXCEPT !.id = None]]
    /\ cursor' = [cursor EXCEPT ![w] = NoCursor]
    /\ UNCHANGED <<tables, sqlite_sequence, inserted, lastUpsert, auxDbVars, durable>>

(***************************************************************************)
(* The rate limiter (tools/rate_limiter.py).  Time is counted in clock     *)
(* ticks; between two awaits of a task the clock does not move.            *)
(***************************************************************************)
Callers == 1..NumCallers
Times == 0..MaxTime

\* self.tokens = [t for t in self.tokens if now - t < self.period]
Prune(toks, now, per) == SelectSeq(toks, LAMBDA t : now - t < per)

\* the caller never waits
sleep_time_none(toks, now, per) == 0

\* sleep_time = self.period - (now - self.tokens[0])
sleep_time(toks, now, per) == per - (now - toks[1])

\* self.tokens.append(now); acquire() returns and __aexit__ releases
Grant(c, toks, now) ==
    /\ tokens' = Append(toks, now)
    /\ grants' = [grants EXCEPT ![now] = @ + 1]
    /\ acquirePc' = [acquirePc EXCEPT ![c] = "idle"]

\* rate_limiter.py:30-46 up to the first await: enter the semaphore, prune,
\* then either sleep until the oldest token expires or append and return
AcquireEnter(c) ==
    /\ acquirePc[c] = "idle"
    /\ limiter_semaphore > 0
    /\ LET pruned == Prune(tokens, monotonic, period) IN
        IF Len(pruned) >= rate /\ sleep_time(pruned, monotonic, period) > 0
        THEN /\ tokens' = pruned
             /\ acquirePc' = [acquirePc EXCEPT ![c] = "sleeping"]
             /\ wakeAt' = [wakeAt EXCEPT ![c] = monotonic + sleep_time(pruned, monotonic, period)]
             /\ limiter_semaphore' = limiter_semaphore - 1
             /\ UNCHANGED grants
        ELSE /\ Grant(c, pruned, monotonic)
             /\ UNCHANGED <<wakeAt, limiter_semaphore>>
    /\ UNCHANGED <<rate, period, monotonic>>

\* rate_limiter.py:40-46: asyncio.sleep returned, at its due time or later;
\* prune again with the new time, append, return
AcquireWake(c) ==
    /\ acquirePc[c] = "sleeping"
    /\ monotonic >= wakeAt[c]
    /\ Grant(c, Prune(tokens, monotonic, period), monotonic)
    /\ limiter_semaphore' = limiter_semaphore + 1
    /\ UNCHANGED <<rate, period, monotonic, wakeAt>>

\* time.monotonic() advances
Tick ==
    /\ monotonic < MaxTime
    /\ monotonic' = monotonic + 1
    /\ UNCHANGED <<rate, period, limiter_semaphore, tokens, acquirePc, wakeAt, grants>>

\* rate_limiter.py:9-26: a new RateLimiter(rate, period); the semaphore is
\* created with `rate` permits on first use
NewLimiter(r, per) ==
    /\ rate = r
    /\ period = per
    /\ limiter_semaphore = r
    /\ tokens = <<>>
    /\ monotonic = 0
    /\ acquirePc = [c \in Callers |-> "idle"]
    /\ wakeAt = [c \in Callers |-> 0]
    /\ grants = [k \in Times |-> 0]

LimiterUnused == NewLimiter(1, 1)

(***************************************************************************)
(* The single-item variant (ingest_youtube.py:303-394): one call of        *)
(* ingest_youtube_url_async, one step per await.  `single.calls` lists the *)
(* collaborator calls it has awaited, `single.logs` the log rows written.  *)
(***************************************************************************)
SingleUrl == 1

\* the frame at entry: arguments and locals
UrlCall(w, d, c, store) ==
    [pc |-> "metadata", writer |-> w, dry_run |-> d, console |-> c,
     transcript |-> None, hash |-> None, summary_text |-> "unset",
     calls |-> <<>>, logs |-> <<>>, failed |-> {}, preview |-> FALSE,
     pending |-> "none", ret |-> "none", store0 |-> store]

NoUrlCall == [UrlCall(FALSE, FALSE, FALSE, {}) EXCEPT !.pc = "idle"]


Called(s, c) == [s EXCEPT !.calls = Append(@, c)]

\* await writer.log_event(url, action, result, ...) returned
Logged(s, action, result) ==
    [Called(s, "log_event") EXCEPT !.logs = Append(@, <<action, result>>)]

\* return / raise outside the try ... finally
UrlReturn(s, value) == [s EXCEPT !.pc = "done", !.ret = value]

\* return / raise inside the try: the finally block runs first
UrlFinally(s, value) == [s EXCEPT !.pc = "summarizer_close", !.pending = value]

\* ingest_youtube.py:351-356: if dry_run: return 1; if writer is None: return 0
AfterPreview(s) ==
    IF s.dry_run THEN UrlReturn(s, "1")
    ELSE IF ~s.writer THEN UrlReturn(s, "0")
    ELSE [s EXCEPT !.pc = "has_changed"]

\* ingest_youtube.py:313-320: metadata = await extract_metadata_async(url),
\* which reports a failure as an "error" key
UrlExtractMetadata ==
    /\ single.pc = "metadata"
    /\ \E error \in BOOLEAN :
        single' = [Called(single, "extract_metadata") EXCEPT
                      !.pc = IF error /\ single.writer THEN "metadata_error_log" ELSE "fetch"]
    /\ UNCHANGED <<seen_hashes, db_connection>>

\* ingest_youtube.py:319-320
UrlLogMetadataError ==
    /\ single.pc = "metadata_error_log"
    /\ \E ok \in BOOLEAN :
        single' = IF ok THEN [Logged(single, "fetch", "error") EXCEPT !.pc = "fetch"]
                  ELSE UrlReturn(Called(single, "log_event"), "raised")
    /\ UNCHANGED <<seen_hashes, db_connection>>

\* ingest_youtube.py:322-356: the fetch; on success the hash, the console
\* preview and the dry_run / writer tests follow without an await
UrlFetch ==
    /\ single.pc = "fetch"
    /\ \/ \E t \in Contents :
            single' = AfterPreview([Called(single, "fetch") EXCEPT
                          !.transcript = t, !.hash = content_hash(t),
                          !.preview = single.console])
       \/ \E e \in FetchErrors :
            single' = IF single.writer
                      THEN [Called(single, "fetch") EXCEPT
                               !.pc = IF is_blocked(e) THEN "fetch_blocked_log"
                                      ELSE "fetch_error_log"]
                      ELSE UrlReturn(Called(single, "fetch"),
                                     IF is_blocked(e) THEN "Fatal" ELSE "0")
    /\ UNCHANGED <<seen_hashes, db_connection>>

\* ingest_youtube.py:335-339
UrlLogFetchBlocked ==
    /\ single.pc = "fetch_blocked_log"
    /\ \E ok \in BOOLEAN :
        single' = IF ok THEN UrlReturn(Logged(single, "fetch", "error"), "Fatal")
                  ELSE UrlReturn(Called(single, "log_event"), "raised")
    /\ UNCHANGED <<seen_hashes, db_connection>>

\* ingest_youtube.py:341-344
UrlLogFetchError ==
    /\ single.pc = "fetch_error_log"
    /\ \E ok \in BOOLEAN :
        single' = IF ok THEN UrlReturn(Logged(single, "fetch", "error"), "0")
                  ELSE UrlReturn(Called(single, "log_event"), "raised")
    /\ UNCHANGED <<seen_hashes, db_connection>>

\* ingest_youtube.py:358: if not await has_changed(url, content_hash_val)
UrlHasChanged ==
    /\ single.pc = "has_changed"
    /\ db_connection' = get_conn(db_connection)
    /\ single' = [Called(single, "has_changed") EXCEPT
                     !.pc = IF has_changed(seen_hashes, SingleUrl, single.hash)
                            THEN "summarize" ELSE "skip_log"]
    /\ UNCHANGED seen_hashes

\* ingest_youtube.py:359-360
UrlLogSkip ==
    /\ single.pc = "skip_log"
    /\ \E ok \in BOOLEAN :
        single' = IF ok THEN UrlReturn(Logged(single, "fetch", "skip"), "0")
                  ELSE UrlReturn(Called(single, "log_event"), "raised")
    /\ UNCHANGED <<seen_hashes, db_connection>>

\* ingest_youtube.py:362-375: summarizer.summarize_video inside the inner try
UrlSummarize ==
    /\ single.pc = "summarize"
    /\ \E ok \in BOOLEAN :
        single' = IF ok
                  THEN [Called(single, "summarize") EXCEPT
                           !.pc = "summarize_ok_log", !.summary_text = "summary"]
                  ELSE [Called(single, "summarize") EXCEPT
                           !.pc = "summarize_error_log", !.summary_text = FallbackSummary]
    /\ UNCHANGED <<seen_hashes, db_connection>>

\* ingest_youtube.py:373-376: log_event(summarize, ok) is inside the inner
\* try, so when it raises the except branch replaces the summary and logs
UrlLogSummarizeOk ==
    /\ single.pc = "summarize_ok_log"
    /\ \E ok \in BOOLEAN :
        single' = IF ok THEN [Logged(single, "summarize", "ok") EXCEPT !.pc = "upsert"]
                  ELSE [Called(single, "log_event") EXCEPT
                           !.pc = "summarize_error_log", !.summary_text = FallbackSummary]
    /\ UNCHANGED <<seen_hashes, db_connection>>

\* ingest_youtube.py:375-376
UrlLogSummarizeError ==
    /\ single.pc = "summarize_error_log"
    /\ \E ok \in BOOLEAN :
        single' = IF ok THEN [Logged(single, "summarize", "error") EXCEPT !.pc = "upsert"]
                  ELSE UrlFinally(Called(single, "log_event"), "raised")
    /\ UNCHANGED <<seen_hashes, db_connection>>

\* ingest_youtube.py:378-387
UrlUpsert ==
    /\ single.pc = "upsert"
    /\ \E ok \in BOOLEAN :
        single' = IF ok THEN [Called(single, "upsert") EXCEPT !.pc = "write_ok_log"]
                  ELSE [UrlFinally(Called(single, "upsert"), "raised") EXCEPT
                           !.failed = @ \cup {"upsert"}]
    /\ UNCHANGED <<seen_hashes, db_connection>>

\* ingest_youtube.py:388
UrlLogWriteOk ==
    /\ single.pc = "write_ok_log"
    /\ \E ok \in BOOLEAN :
        single' = IF ok THEN [Logged(single, "write", "ok") EXCEPT !.pc = "mark_processed"]
                  ELSE UrlFinally(Called(single, "log_event"), "raised")
    /\ UNCHANGED <<seen_hashes, db_connection>>

\* ingest_youtube.py:389-390: await mark_processed(...); return 1
UrlMarkProcessed ==
    /\ single.pc = "mark_processed"
    /\ db_connection' = get_conn(db_connection)
    /\ seen_hashes' = mark_processed(seen_hashes, SingleUrl, single.hash)
    /\ single' = UrlFinally(Called(single, "mark_processed"), "1")

\* ingest_youtube.py:391-392: finally: await summarizer.close()
UrlSummarizerClose ==
    /\ single.pc = "summarizer_close"
    /\ single' = [Called(single, "summarizer_close") EXCEPT !.pc = "close_db"]
    /\ UNCHANGED <<seen_hashes, db_connection>>

\* ingest_youtube.py:393: await close_db(), then the pending return or raise
UrlCloseDb ==
    /\ single.pc = "close_db"
    /\ db_connection' = "closed"
    /\ single' = UrlReturn(Called(single, "close_db"), single.pending)
    /\ UNCHANGED seen_hashes

(***************************************************************************)
(* The hosted-API writer (tools/notion.py).  Its methods are plain `def`   *)
(* functions: a pipeline task that calls one runs it to the end on the     *)
(* event-loop thread, remote requests included, before any other task      *)
(* runs.  Every remote request is two steps, sent and answered.            *)
(***************************************************************************)
NotionWorkers == 1..NumNotionWorkers
NotionDbs == {"youtube", "articles"}
NotionURLs == 1..MaxNotionUrl
LogDb == "log"

NoNotionCall == [pc |-> "idle", db |-> "none", url |-> 0, title |-> "none",
                 page_id |-> None, ret |-> None]

\* notion.py:109-123: __init__ stores the client and the five database ids;
\* the instance has no lock attribute
WriterLock == "none"

\* the calling task occupies the event-loop thread until the method returns
LoopFree_threads(l) == TRUE

LoopFree(l) == l = 0

\* notion.py:129-139: the query answers the first page whose Link equals url
QueryResults(pages, u) ==
    IF \E k \in 1..Len(pages) : pages[k].url = u
    THEN pages[CHOOSE k \in 1..Len(pages) :
                   /\ pages[k].url = u
                   /\ \A j \in 1..(k - 1) : pages[j].url # u].id
    ELSE None

\* notion.py:140-143: except Exception: print a warning; return None
QueryFailed == None

\* notion.py:155, 187: upsert_video / upsert_article call _find_page_by_link,
\* which sends the query request
NotionFindSend(w, db, u, title) ==
    /\ notionCall[w].pc = "idle"
    /\ LoopFree(loop)
    /\ loop' = w
    /\ notionCall' = [notionCall EXCEPT ![w] =
                         [pc |-> "find", db |-> db, url |-> u, title |-> title,
                          page_id |-> None, ret |-> None]]
    /\ remote' = [remote EXCEPT ![w] = "query"]
    /\ UNCHANGED notion_pages

\* notion.py:129-143: the query is answered or raises
NotionFindAnswer(w) ==
    /\ notionCall[w].pc = "find"
    /\ \E ok \in BOOLEAN :
        notionCall' = [notionCall EXCEPT ![w].pc = "write",
                          ![w].page_id = IF ok
                                         THEN QueryResults(notion_pages[notionCall[w].db],
                                                           notionCall[w].url)
                                         ELSE QueryFailed]
    /\ remote' = [remote EXCEPT ![w] = "none"]
    /\ UNCHANGED <<notion_pages, loop>>

\* notion.py:167-174: pages.update when a page was found, pages.create otherwise
NotionWriteSend(w) ==
    /\ notionCall[w].pc = "write"
    /\ notionCall[w].page_id = None => Len(notion_pages[notionCall[w].db]) < MaxPages
    /\ notionCall' = [notionCall EXCEPT ![w].pc = "written"]
    /\ remote' = [remote EXCEPT ![w] =
                     IF notionCall[w].page_id # None THEN "update" ELSE "create"]
    /\ UNCHANGED <<notion_pages, loop>>

\* notion.py:167-175: the request is answered and the method returns the
\* page id, or the request raises and so does the method
NotionWriteAnswer(w) ==
    /\ notionCall[w].pc = "written"
    /\ LET c == notionCall[w]
           pages == notion_pages[c.db]
       IN \E ok \in BOOLEAN :
           /\ notion_pages' =
                IF ~ok THEN notion_pages
                ELSE IF c.page_id # None
                THEN [notion_pages EXCEPT ![c.db] =
                        [k \in 1..Len(pages) |->
                            IF pages[k].id = c.page_id
                            THEN [pages[k] EXCEPT !.url = c.url, !.title = c.title]
                            ELSE pages[k]]]
                ELSE [notion_pages EXCEPT ![c.db] =
                        Append(pages, [id |-> Len(pages) + 1, url |-> c.url,
                                       title |-> c.title])]
           /\ notionCall' = [notionCall EXCEPT ![w] =
                                [NoNotionCall EXCEPT !.ret =
                                    IF ~ok THEN None
                                    ELSE IF c.page_id # None THEN c.page_id
                                    ELSE Len(pages) + 1]]
    /\ remote' = [remote EXCEPT ![w] = "none"]
    /\ loop' = 0

\* notion.py:264-279: log_event builds the properties and sends pages.create
\* for the log database
NotionLogSend(w, u) ==
    /\ notionCall[w].pc = "idle"
    /\ LoopFree(loop)
    /\ Len(notion_pages[LogDb]) < MaxPages
    /\ loop' = w
    /\ notionCall' = [notionCall EXCEPT ![w] =
                         [pc |-> "written", db |-> LogDb, url |-> u, title |-> "write | ok",
                          page_id |-> None, ret |-> None]]
    /\ remote' = [remote EXCEPT ![w] = "create"]
    /\ UNCHANGED notion_pages

\* a writer with empty collections
NotionUnused ==
    /\ notion_pages = [db \in NotionDbs \cup {LogDb} |-> <<>>]
    /\ notionCall = [w \in NotionWorkers |-> NoNotionCall]
    /\ remote = [w \in NotionWorkers |-> "none"]
    /\ loop = 0

(***************************************************************************)
(* The Notion-to-SQLite migration (tools/migrate_from_notion.py): export   *)
(* the three Notion databases, then import videos, articles and logs.  It  *)
(* is the only task on its connection.  `migration.once` keeps the tables  *)
(* as the first run left them.                                             *)
(***************************************************************************)
\* what export_notion_videos / export_notion_articles return: url and title
\* stand for the exported page
ExportedPages == UNION {[1..n -> [url : 1..MaxUrl, title : Titles]] : n \in 0..MaxExport}

\* what export_notion_logs returns; Notion's select values are free text
ExportedLogs ==
    UNION {[1..n -> {[action |-> "fetch", result |-> "ok"],
                     [action |-> "write", result |-> "error"],
                     [action |-> "bogus", result |-> "ok"]}] : n \in 0..MaxExport}

NoSnapshot == [tables |-> [t \in Tables |-> <<>>], ingestion_logs |-> <<>>]

NoMigration ==
    [run |-> 0, phase |-> "idle", k |-> 1,
     videos |-> <<>>, articles |-> <<>>, logs |-> <<>>, once |-> NoSnapshot]

\* migrate_from_notion.py:285-313: the exports of one run
Exported(v, a, l) ==
    [run |-> 1, phase |-> "videos", k |-> 1,
     videos |-> v, articles |-> a, logs |-> l, once |-> NoSnapshot]

\* the next item of the phase, or the next phase when the list is exhausted
Advance(m, list, nextPhase) ==
    IF m.k < Len(list) THEN [m EXCEPT !.k = m.k + 1]
    ELSE [m EXCEPT !.phase = nextPhase, !.k = 1]

\* migrate_from_notion.py:329-337: await db_writer.upsert_video(**video)
MigrateVideo ==
    /\ migration.phase = "videos"
    /\ IF migration.videos = <<>>
       THEN /\ migration' = [migration EXCEPT !.phase = "articles"]
            /\ UNCHANGED <<tables, sqlite_sequence>>
       ELSE LET v == migration.videos[migration.k] IN
            /\ tables' = [tables EXCEPT !["videos"] =
                             UpsertStatement("videos", @, sqlite_sequence["videos"], v.url, v.title)]
            /\ sqlite_sequence' = [sqlite_sequence EXCEPT !["videos"] =
                                      NextSequence(tables["videos"], @, v.url)]
            /\ migration' = Advance(migration, migration.videos, "articles")
    /\ UNCHANGED <<dbPc, cursor, returned, inserted, lastUpsert, auxDbVars>>

\* migrate_from_notion.py:344-351: await db_writer.upsert_article(**article)
MigrateArticle ==
    /\ migration.phase = "articles"
    /\ IF migration.articles = <<>>
       THEN /\ migration' = [migration EXCEPT !.phase = "logs"]
            /\ UNCHANGED <<tables, sqlite_sequence>>
       ELSE LET a == migration.articles[migration.k] IN
            /\ tables' = [tables EXCEPT !["articles"] =
                             UpsertStatement("articles", @, sqlite_sequence["articles"], a.url, a.title)]
            /\ sqlite_sequence' = [sqlite_sequence EXCEPT !["articles"] =
                                      NextSequence(tables["articles"], @, a.url)]
            /\ migration' = Advance(migration, migration.articles, "logs")
    /\ UNCHANGED <<dbPc, cursor, returned, inserted, lastUpsert, auxDbVars>>

\* migrate_from_notion.py:362-365: INSERT OR IGNORE INTO ingestion_logs (time,
\* item_url, action, result, message): the table has no UNIQUE key besides
\* id, so only a row that fails a CHECK is ignored
InsertOrIgnore(rows, u, l) ==
    IF action_valid(l.action) /\ result_valid(l.result)
    THEN Append(rows, [id |-> NextLogId(rows), item_url |-> u,
                       action |-> l.action, result |-> l.result])
    ELSE rows

\* migrate_from_notion.py:358-368: one exported log entry is imported
MigrateLog ==
    /\ migration.phase = "logs"
    /\ IF migration.logs = <<>>
       THEN /\ migration' = [migration EXCEPT !.phase = "done"]
            /\ UNCHANGED ingestion_logs
       ELSE /\ ingestion_logs' = InsertOrIgnore(ingestion_logs, migration.k,
                                                migration.logs[migration.k])
            /\ migration' = Advance(migration, migration.logs, "done")
    /\ UNCHANGED <<tables, sqlite_sequence, dbPc, cursor, returned, inserted, lastUpsert,
                   fts, queryResult>>

\* cli.py:269-281: the migrate command is run again over the same export
MigrateAgain ==
    /\ migration.phase = "done"
    /\ migration.run = 1
    /\ migration' = [migration EXCEPT !.run = 2, !.phase = "videos", !.k = 1,
                        !.once = [tables |-> tables, ingestion_logs |-> ingestion_logs]]
    /\ UNCHANGED dbVars

(***************************************************************************)
(* One ingest_youtube call inside its caller's event loop: discovery, the  *)
(* collector's thread pool, the item tasks of gather, and the tasks the    *)
(* finally block cancels.                                                  *)
(***************************************************************************)
\* the configured discovery source (_collect_all_videos picks by priority)
Sources == {"api", "feed", "channels", "none"}

\* a task of the event loop that is not finished
Task(origin) == [origin |-> origin, state |-> "pending"]

\* the tasks the caller created before it awaited the batch call
CallerTasks(n) == [k \in 1..n |-> Task("caller")]

\* collector.py:38-42: the pool is created on first use
get_executor(e) == "running"

\* collector.py:45-51: shuts the pool down when there is one
shutdown_collector_executor(e) == IF e = "running" THEN "shutdown" ELSE e

\* `not t.done()` of a task of the loop
Pending(t) == t.state = "pending"

\* ingest_youtube.py:112-118: every task of the loop that is not the current
\* one and is not done gets task.cancel()
CancelAll(ts) ==
    [k \in DOMAIN ts |-> IF Pending(ts[k]) THEN [ts[k] EXCEPT !.state = "cancelled"] ELSE ts[k]]

\* ingest_youtube.py:133-178 and :51-61: discovery uses the pool of the
\* collector unless no source is configured; it raises DiscoveryError, finds
\* nothing (return 0) or finds videos
Discover ==
    /\ callPc = "discover"
    /\ \E src \in Sources, found \in {"videos", "empty", "DiscoveryError"} :
        /\ src = "none" => found = "empty"
        /\ executor' = IF src = "none" THEN executor ELSE get_executor(executor)
        /\ callPc' = IF found = "videos" THEN "gather" ELSE "done"
        /\ callExit' = CASE found = "videos" -> callExit
                         [] found = "empty" -> "0"
                         [] OTHER -> "DiscoveryError"
    /\ UNCHANGED all_tasks

\* ingest_youtube.py:76-77: gather wraps one task around each item coroutine
GatherSpawn ==
    /\ callPc = "gather"
    /\ all_tasks' = all_tasks \o [k \in 1..NumItems |-> Task("batch")]
    /\ callPc' = "gathering"
    /\ UNCHANGED <<executor, callExit>>

\* a task of the loop runs to its end
TaskFinish(k) ==
    /\ callPc # "done"
    /\ k \in DOMAIN all_tasks
    /\ Pending(all_tasks[k])
    /\ all_tasks' = [all_tasks EXCEPT ![k].state = "done"]
    /\ UNCHANGED <<callPc, executor, callExit>>

\* ingest_youtube.py:77-97: gather returns once every item task is done; the
\* try block returns the count or raises the first fatal error
GatherReturn ==
    /\ callPc = "gathering"
    /\ \A k \in DOMAIN all_tasks : all_tasks[k].origin = "batch" => ~Pending(all_tasks[k])
    /\ \E out \in {"count", "FatalIngestionError"} : callExit' = out
    /\ callPc' = "close"
    /\ UNCHANGED <<all_tasks, executor>>

\* ingest_youtube.py:104-110: summarizer.close(), close_db() and the 0.1 s
\* sleep; an exception of the first two ends the finally block
CleanupClose ==
    /\ callPc = "close"
    /\ \E ok \in BOOLEAN :
        /\ callPc' = IF ok THEN "cancel" ELSE "done"
        /\ callExit' = IF ok THEN callExit ELSE "error"
    /\ UNCHANGED <<all_tasks, executor>>

\* ingest_youtube.py:112-118
CancelRemaining ==
    /\ callPc = "cancel"
    /\ all_tasks' = CancelAll(all_tasks)
    /\ callPc' = "shutdown"
    /\ UNCHANGED <<executor, callExit>>

\* ingest_youtube.py:120-130: gather of the cancelled tasks, then the pool of
\* the collector and the default executor are shut down
ShutdownExecutors ==
    /\ callPc = "shutdown"
    /\ executor' = shutdown_collector_executor(executor)
    /\ callPc' = "done"
    /\ UNCHANGED <<all_tasks, callExit>>

CallUnused ==
    /\ callPc = "idle"
    /\ all_tasks = <<>>
    /\ executor = "none"
    /\ callExit = "none"

(***************************************************************************)
(* storage.get_conn under concurrent workers.  Each await of a statement   *)
(* is two steps: the connection's thread executes its queue in order, and  *)
(* the waiting task resumes later.                                         *)
(***************************************************************************)
StoreWorkers == 1..NumStoreWorkers

\* a statement worker w sent to a connection
Sent(w, stmt) == [worker |-> w, stmt |-> stmt]

\* where a task waits once the statement it awaits was executed
Executed(stmt) ==
    CASE stmt = "pragma" -> "pragma_done"
      [] stmt = "create" -> "create_done"
      [] stmt = "commit" -> "commit_done"
      [] OTHER -> "select_done"

\* conn.execute / conn.commit: the statement joins the queue of connection c
Send(q, c, w, stmt) == [q EXCEPT ![c] = Append(@, Sent(w, stmt))]

\* storage.py:47-49 after get_conn returned c: the SELECT is sent
SendSelect(w, c) ==
    /\ conn' = [conn EXCEPT ![w] = c]
    /\ queue' = Send(queue, c, w, "select")
    /\ getConnPc' = [getConnPc EXCEPT ![w] = "select"]

\* storage.py:25-30, 36: get_conn up to its first await; with a connection in
\* the global it returns at once
GetConnEnter(w) ==
    /\ getConnPc[w] = "idle"
    /\ IF shared_connection = None
       THEN /\ getConnPc' = [getConnPc EXCEPT ![w] = "connect"]
            /\ UNCHANGED <<conn, queue>>
       ELSE SendSelect(w, shared_connection)
    /\ UNCHANGED <<connections, shared_connection, seen_table, selected>>

\* storage.py:31-33: aiosqlite.connect returned; the global is assigned and
\* the PRAGMA is sent to it
Connected(w) ==
    /\ getConnPc[w] = "connect"
    /\ connections' = connections \cup {w}
    /\ shared_connection' = w
    /\ queue' = Send(queue, w, w, "pragma")
    /\ getConnPc' = [getConnPc EXCEPT ![w] = "pragma"]
    /\ UNCHANGED <<conn, seen_table, selected>>

\* the thread of connection c executes the oldest statement of its queue
Execute(c) ==
    /\ c \in connections
    /\ queue[c] # <<>>
    /\ LET s == Head(queue[c]) IN
        /\ queue' = [queue EXCEPT ![c] = Tail(@)]
        /\ seen_table' = (seen_table \/ s.stmt = "create")
        /\ selected' = IF s.stmt = "select"
                       THEN [selected EXCEPT ![s.worker] =
                               IF seen_table THEN "row" ELSE "no such table"]
                       ELSE selected
        /\ getConnPc' = [getConnPc EXCEPT ![s.worker] = Executed(s.stmt)]
    /\ UNCHANGED <<connections, shared_connection, conn>>

\* storage.py:34 and :12-21: the PRAGMA is done; _ensure_db is called with the
\* connection the global refers to now and sends CREATE TABLE IF NOT EXISTS
EnsureDb(w) ==
    /\ getConnPc[w] = "pragma_done"
    /\ shared_connection # None
    /\ conn' = [conn EXCEPT ![w] = shared_connection]
    /\ queue' = Send(queue, shared_connection, w, "create")
    /\ getConnPc' = [getConnPc EXCEPT ![w] = "create"]
    /\ UNCHANGED <<connections, shared_connection, seen_table, selected>>

\* storage.py:22: _ensure_db commits on the connection it was given
EnsureDbCommit(w) ==
    /\ getConnPc[w] = "create_done"
    /\ queue' = Send(queue, conn[w], w, "commit")
    /\ getConnPc' = [getConnPc EXCEPT ![w] = "commit"]
    /\ UNCHANGED <<connections, shared_connection, conn, seen_table, selected>>

\* storage.py:36 and :47-49: get_conn returns the global and the caller sends
\* its SELECT
GetConnReturn(w) ==
    /\ getConnPc[w] = "commit_done"
    /\ shared_connection # None
    /\ SendSelect(w, shared_connection)
    /\ UNCHANGED <<connections, shared_connection, seen_table, selected>>

\* storage.py:50-51, 54-56: has_changed returns, or raises what the SELECT raised
HasChangedReturn(w) ==
    /\ getConnPc[w] = "select_done"
    /\ getConnPc' = [getConnPc EXCEPT ![w] = "done"]
    /\ UNCHANGED <<connections, shared_connection, conn, queue, seen_table, selected>>

\* storage.py:39-44, called by the finally block after every worker ended:
\* the connection the global refers to is closed and the global reset
CloseShared ==
    /\ \A w \in StoreWorkers : getConnPc[w] = "done"
    /\ shared_connection # None
    /\ connections' = connections \ {shared_connection}
    /\ shared_connection' = None
    /\ UNCHANGED <<getConnPc, conn, queue, seen_table, selected>>

\* a fresh store that no worker has used
ConnFresh ==
    /\ getConnPc = [w \in StoreWorkers |-> "idle"]
    /\ connections = {}
    /\ shared_connection = None
    /\ conn = [w \in StoreWorkers |-> None]
    /\ queue = [c \in StoreWorkers |-> <<>>]
    /\ seen_table = FALSE
    /\ selected = [w \in StoreWorkers |-> "none"]

ConnUnused == ConnFresh

ExtUnused ==
    /\ single = NoUrlCall
    /\ NotionUnused
    /\ migration = NoMigration
    /\ durable = NothingDurable
    /\ CallUnused
    /\ ConnUnused

(***************************************************************************)
(* The batch call: gather, result loop, finally block.                     *)
(***************************************************************************)
NoOutcome == [kind |-> "none", value |-> 0]

\* every result that is not a fatal error is counted
Total_not_fatal(res) == Cardinality({i \in DOMAIN res : res[i] # "Fatal"})

\* ingest_youtube.py:80-89, ingest_hackernews.py:70: results counted as success
Total(res) == Cardinality({i \in DOMAIN res : res[i] = "True"})

\* first_fatal = result: the last fatal result of the list is kept
FirstFatal_last(res) ==
    IF \E i \in DOMAIN res : res[i] = "Fatal"
    THEN CHOOSE i \in DOMAIN res :
            /\ res[i] = "Fatal"
            /\ \A j \in DOMAIN res : res[j] = "Fatal" => i >= j
    ELSE 0

\* ingest_youtube.py:81-84: first_fatal = first_fatal or result, in list order
FirstFatal(res) ==
    IF \E i \in DOMAIN res : res[i] = "Fatal"
    THEN CHOOSE i \in DOMAIN res :
            /\ res[i] = "Fatal"
            /\ \A j \in DOMAIN res : res[j] = "Fatal" => i <= j
    ELSE 0

\* ingest_youtube.py:77-97, ingest_hackernews.py:64-75
BatchResult(p, res) ==
    IF p = "youtube" /\ FirstFatal(res) # 0
    THEN [kind |-> "fatal", value |-> FirstFatal(res)]
    ELSE [kind |-> "count", value |-> Total(res)]

\* await asyncio.gather(*tasks, return_exceptions=True) returns once every
\* task is done; then the result loop runs
Gather ==
    /\ batchPc = "gather"
    /\ \A i \in Items : pc[i] = "done"
    /\ tryOutcome' = BatchResult(pipeline, results)
    /\ batchPc' = "finally"
    /\ UNCHANGED <<pipeline, workers, nItems, url, semaphore, pc, text, changed,
                   summary_text, stages, logs, failed, results, blockedOrder,
                   lateStart, seen_hashes, db_connection, outcome, cleaned,
                   history>>
    /\ UNCHANGED <<storeVars, dbVars, rateVars, extVars>>

\* ingest_hackernews.py:58: asyncio.Semaphore(value) raises ValueError for a
\* negative value; the try block ends before any item task exists
SemaphoreValueError ==
    /\ batchPc = "gather"
    /\ SemaphoreValue(pipeline, workers) < 0
    /\ tryOutcome' = [kind |-> "error", value |-> 0]
    /\ batchPc' = "finally"
    /\ UNCHANGED <<pipeline, workers, nItems, url, semaphore, pc, text, changed,
                   summary_text, stages, logs, failed, results, blockedOrder,
                   lateStart, seen_hashes, db_connection, outcome, cleaned,
                   history>>
    /\ UNCHANGED <<storeVars, dbVars, rateVars, extVars>>

\* the awaited steps of the finally block that can raise, in order
CleanupSteps(p) ==
    IF p = "youtube"
    THEN <<"summarizer.close", "close_db", "shutdown_collector_executor">>
    ELSE <<"summarizer.close", "close_db">>

\* the outcome of the try block reaches the caller whatever cleanup did
CleanupOutcome_unconditional(p, n, out) == out

\* a finally block that ran its first n steps: when one raised, its exception
\* replaces the outcome of the try block
CleanupOutcome(p, n, out) ==
    IF n = Len(CleanupSteps(p)) THEN out ELSE [kind |-> "error", value |-> 0]

\* ingest_youtube.py:98-130, ingest_hackernews.py:76-99: the steps run in
\* order; a step that raises ends the block and replaces the outcome
Cleanup ==
    /\ batchPc = "finally"
    /\ \E n \in 0..Len(CleanupSteps(pipeline)) :
        /\ cleaned' = {CleanupSteps(pipeline)[k] : k \in 1..n}
        /\ db_connection' = IF n >= 2 THEN "closed" ELSE db_connection
        /\ outcome' = CleanupOutcome(pipeline, n, tryOutcome)
    /\ batchPc' = "done"
    /\ UNCHANGED <<pipeline, workers, nItems, url, semaphore, pc, text, changed,
                   summary_text, stages, logs, failed, results, blockedOrder,
                   lateStart, seen_hashes, tryOutcome, history>>
    /\ UNCHANGED <<storeVars, dbVars, rateVars, extVars>>

\* the state of a batch call whose tasks were just created by gather
StartUrls(p, w, n, us) ==
    /\ pipeline = p
    /\ workers = w
    /\ nItems = n
    /\ url = us
    /\ semaphore = SemaphoreValue(p, w)
    /\ pc = [i \in 1..n |-> "waiting"]
    /\ text = [i \in 1..n |-> None]
    /\ changed = [i \in 1..n |-> "unknown"]
    /\ summary_text = [i \in 1..n |-> "unset"]
    /\ stages = [i \in 1..n |-> <<>>]
    /\ logs = [i \in 1..n |-> <<>>]
    /\ failed = [i \in 1..n |-> {}]
    /\ results = [i \in 1..n |-> "pending"]
    /\ blockedOrder = <<>>
    /\ lateStart = {}
    /\ batchPc = "gather"
    /\ tryOutcome = NoOutcome
    /\ outcome = NoOutcome
    /\ cleaned = {}
    /\ db_connection = "closed"

\* a batch over a discovered list of distinct URLs
Start(p, w, n) == StartUrls(p, w, n, [i \in 1..n |-> i])

\* what the caller and the collaborators saw of the run that just ended
RunSummary ==
    [outcome |-> outcome,
     text    |-> text,
     upserts |-> [i \in Items |-> Cardinality({k \in 1..Len(stages[i]) : stages[i][k] = "upsert"})],
     rows    |-> [i \in Items |-> {logs[i][k] : k \in 1..Len(logs[i])}],
     raised  |-> UNION {failed[i] : i \in Items}]

\* the caller runs the same batch a second time; the dedup store file persists
NextRun ==
    /\ batchPc = "done"
    /\ history = <<>>
    /\ history' = Append(history, RunSummary)
    /\ semaphore' = SemaphoreValue(pipeline, workers)
    /\ pc' = [i \in Items |-> "waiting"]
    /\ text' = [i \in Items |-> None]
    /\ changed' = [i \in Items |-> "unknown"]
    /\ summary_text' = [i \in Items |-> "unset"]
    /\ stages' = [i \in Items |-> <<>>]
    /\ logs' = [i \in Items |-> <<>>]
    /\ failed' = [i \in Items |-> {}]
    /\ results' = [i \in Items |-> "pending"]
    /\ blockedOrder' = <<>>
    /\ lateStart' = {}
    /\ batchPc' = "gather"
    /\ tryOutcome' = NoOutcome
    /\ outcome' = NoOutcome
    /\ cleaned' = {}
    /\ UNCHANGED <<pipeline, workers, nItems, url, seen_hashes, db_connection>>
    /\ UNCHANGED <<storeVars, dbVars, rateVars, extVars>>

Pipelines == {"youtube", "hackernews"}

\* one batch over NumItems items; the store may hold hashes of earlier runs
Init ==
    /\ \E p \in Pipelines, w \in 1..MaxWorkers : Start(p, w, NumItems)
    /\ seen_hashes \in SUBSET {<<u, 0>> : u \in URLs}
    /\ history = <<>>
    /\ StoreUnused
    /\ DbConnected
    /\ LimiterUnused
    /\ ExtUnused

Next ==
    \/ \E i \in Items : Acquire(i)
    \/ \E i \in Items : FetchTranscript(i)
    \/ \E i \in Items : FetchArticle(i)
    \/ \E i \in Items : LogFetchBlocked(i)
    \/ \E i \in Items : LogFetchError(i)
    \/ \E i \in Items : HasChanged(i)
    \/ \E i \in Items : LogSkip(i)
    \/ \E i \in Items : Summarize(i)
    \/ \E i \in Items : LogSummarizeOk(i)
    \/ \E i \in Items : LogSummarizeError(i)
    \/ \E i \in Items : Upsert(i)
    \/ \E i \in Items : LogWriteOk(i)
    \/ \E i \in Items : MarkProcessed(i)
    \/ \E i \in Items : LogWriteError(i)
    \/ Gather
    \/ Cleanup

Spec == Init /\ [][Next]_vars

\* two consecutive runs over one item, starting on a fresh dedup store
InitRerun ==
    /\ \E p \in Pipelines, w \in 1..MaxWorkers : Start(p, w, 1)
    /\ seen_hashes = {}
    /\ history = <<>>
    /\ StoreUnused
    /\ DbConnected
    /\ LimiterUnused
    /\ ExtUnused

NextRerun ==
    \/ Next
    \/ NextRun

SpecRerun == InitRerun /\ [][NextRerun]_vars

(***************************************************************************)
(* One batch whose discovered list holds the same URL twice.               *)
(***************************************************************************)
InitDup ==
    /\ \E p \in Pipelines, w \in 1..MaxWorkers :
         StartUrls(p, w, NumItems, [i \in 1..NumItems |-> 1])
    /\ seen_hashes = {}
    /\ history = <<>>
    /\ StoreUnused
    /\ DbConnected
    /\ LimiterUnused
    /\ ExtUnused

SpecDup == InitDup /\ [][Next]_vars

(***************************************************************************)
(* One batch under any worker budget, zero and negative included, with an  *)
(* event loop that runs every task that can run.                           *)
(***************************************************************************)
Budgets == -1..MaxWorkers

InitBudget ==
    /\ \E p \in Pipelines, w \in Budgets : Start(p, w, NumItems)
    /\ seen_hashes \in SUBSET {<<1, 0>>}
    /\ history = <<>>
    /\ StoreUnused
    /\ DbConnected
    /\ LimiterUnused
    /\ ExtUnused

NextBudget ==
    \/ Next
    \/ SemaphoreValueError

SpecBudget == InitBudget /\ [][NextBudget]_vars /\ WF_vars(NextBudget)

(***************************************************************************)
(* The dedup store used directly: any sequence of API calls.               *)
(***************************************************************************)
\* no batch is running
NoBatch ==
    /\ Start("youtube", 1, 0)
    /\ history = <<>>

pipeFrame == <<pipeline, workers, nItems, url, semaphore, pc, text, changed, summary_text,
               stages, logs, failed, results, blockedOrder, lateStart, batchPc,
               tryOutcome, outcome, cleaned, history>>

InitStore ==
    /\ NoBatch
    /\ seen_hashes = {}
    /\ StoreUnused
    /\ DbConnected
    /\ LimiterUnused
    /\ ExtUnused

NextStore ==
    \/ \E u \in StoreURLs : GetStoredHashCall(u) /\ UNCHANGED <<pipeFrame, dbVars, rateVars, extVars>>
    \/ \E u \in StoreURLs, h \in Hashes : HasChangedCall(u, h) /\ UNCHANGED <<pipeFrame, dbVars, rateVars, extVars>>
    \/ \E u \in StoreURLs, h \in Hashes : MarkProcessedCall(u, h) /\ UNCHANGED <<pipeFrame, dbVars, rateVars, extVars>>
    \/ CloseDb /\ UNCHANGED <<pipeFrame, dbVars, rateVars, extVars>>

SpecStore == InitStore /\ [][NextStore]_vars

(***************************************************************************)
(* The embedded writer used by concurrent workers.                         *)
(***************************************************************************)
InitDb ==
    /\ NoBatch
    /\ seen_hashes = {}
    /\ StoreUnused
    /\ DbConnected
    /\ LimiterUnused
    /\ ExtUnused

NextDb ==
    \/ \E w \in DbWorkers, t \in Tables, u \in DbURLs, title \in Titles :
         UpsertExecute(w, t, u, title) /\ UNCHANGED <<pipeFrame, seen_hashes, db_connection, storeVars, rateVars, extVars, auxDbVars>>
    \/ \E w \in DbWorkers :
         UpsertFetchone(w) /\ UNCHANGED <<pipeFrame, seen_hashes, db_connection, storeVars, rateVars, extVars, auxDbVars>>
    \/ \E w \in DbWorkers :
         UpsertCommit(w) /\ UNCHANGED <<pipeFrame, seen_hashes, db_connection, storeVars, rateVars, extVars, auxDbVars>>

SpecDb == InitDb /\ [][NextDb]_vars

(***************************************************************************)
(* One caller of the embedded writer: content upserts, log events and      *)
(* queries, in any order.                                                  *)
(***************************************************************************)
LogActions == {"fetch", "write", "FETCH"}
LogResults == {"ok", "bogus"}

writerFrame == <<pipeFrame, seen_hashes, db_connection, storeVars, rateVars, extVars>>

NextWriter ==
    \/ \E t \in Tables, u \in 1..1, title \in Titles :
         UpsertExecute(1, t, u, title) /\ UNCHANGED <<writerFrame, auxDbVars>>
    \/ UpsertFetchone(1) /\ UNCHANGED <<writerFrame, auxDbVars>>
    \/ UpsertCommit(1) /\ UNCHANGED <<writerFrame, auxDbVars>>
    \/ \E u \in 1..1, action \in LogActions, result \in LogResults :
         LogExecute(1, u, action, result) /\ UNCHANGED writerFrame
    \/ \E t \in Tables :
         GetRecent(t, MaxLimit) /\ UNCHANGED writerFrame
    \/ \E t \in Tables, query \in Queries :
         Search(t, query) /\ UNCHANGED writerFrame

SpecWriter == InitDb /\ [][NextWriter]_vars

(***************************************************************************)
(* get_recent_videos / get_recent_articles called on tables that earlier   *)
(* upserts filled with dated and undated records.                          *)
(***************************************************************************)
\* the table after upserts of the given records for the URLs 1, 2, ...
Stored(t, recs) ==
    [k \in 1..Len(recs) |-> NewRow(Excluded(t, k, UpsertArgs(recs[k])), k)]

StoredRecords == UNION {[1..n -> Records] : n \in 0..MaxRows}

InitQuery ==
    /\ NoBatch
    /\ seen_hashes = {}
    /\ StoreUnused
    /\ LimiterUnused
    /\ ExtUnused
    /\ \E videos \in StoredRecords, articles \in StoredRecords :
         /\ tables = [t \in Tables |-> IF t = "videos" THEN Stored(t, videos)
                                       ELSE Stored(t, articles)]
         /\ sqlite_sequence = [t \in Tables |-> Len(tables[t])]
    /\ dbPc = [w \in DbWorkers |-> "idle"]
    /\ cursor = [w \in DbWorkers |-> NoCursor]
    /\ returned = [w \in DbWorkers |-> NoCursor]
    /\ inserted = [t \in Tables |-> [u \in DbURLs |-> 0]]
    /\ lastUpsert = [t \in Tables |-> [u \in DbURLs |-> "none"]]
    /\ ingestion_logs = <<>>
    /\ fts = [t \in Tables |-> {}]
    /\ queryResult = NoQuery

NextQuery ==
    \E t \in Tables, limit \in Limits : GetRecent(t, limit) /\ UNCHANGED writerFrame

SpecQuery == InitQuery /\ [][NextQuery]_vars

(***************************************************************************)
(* One call of the single-item variant, with or without a writer, with or  *)
(* without dry_run, on a dedup store that may know the URL.                *)
(***************************************************************************)
urlFrame == <<pipeFrame, storeVars, dbVars, rateVars, notionVars, migration, durable, sysVars>>

InitUrl ==
    /\ NoBatch
    /\ seen_hashes \in SUBSET {<<SingleUrl, 0>>}
    /\ StoreUnused
    /\ DbConnected
    /\ LimiterUnused
    /\ \E w \in BOOLEAN, d \in BOOLEAN, c \in BOOLEAN : single = UrlCall(w, d, c, seen_hashes)
    /\ NotionUnused
    /\ migration = NoMigration
    /\ durable = NothingDurable
    /\ CallUnused
    /\ ConnUnused

NextUrl ==
    \/ UrlExtractMetadata /\ UNCHANGED urlFrame
    \/ UrlLogMetadataError /\ UNCHANGED urlFrame
    \/ UrlFetch /\ UNCHANGED urlFrame
    \/ UrlLogFetchBlocked /\ UNCHANGED urlFrame
    \/ UrlLogFetchError /\ UNCHANGED urlFrame
    \/ UrlHasChanged /\ UNCHANGED urlFrame
    \/ UrlLogSkip /\ UNCHANGED urlFrame
    \/ UrlSummarize /\ UNCHANGED urlFrame
    \/ UrlLogSummarizeOk /\ UNCHANGED urlFrame
    \/ UrlLogSummarizeError /\ UNCHANGED urlFrame
    \/ UrlUpsert /\ UNCHANGED urlFrame
    \/ UrlLogWriteOk /\ UNCHANGED urlFrame
    \/ UrlMarkProcessed /\ UNCHANGED urlFrame
    \/ UrlSummarizerClose /\ UNCHANGED urlFrame
    \/ UrlCloseDb /\ UNCHANGED urlFrame

SpecUrl == InitUrl /\ [][NextUrl]_vars

(***************************************************************************)
(* Pipeline tasks sharing one hosted-API writer.                           *)
(***************************************************************************)
notionFrame == <<pipeFrame, seen_hashes, db_connection, storeVars, dbVars, rateVars, single, migration, durable, sysVars>>

InitNotion ==
    /\ NoBatch
    /\ seen_hashes = {}
    /\ StoreUnused
    /\ DbConnected
    /\ LimiterUnused
    /\ ExtUnused

NextNotion ==
    \/ \E w \in NotionWorkers, db \in NotionDbs, u \in NotionURLs, title \in Titles :
         NotionFindSend(w, db, u, title) /\ UNCHANGED notionFrame
    \/ \E w \in NotionWorkers : NotionFindAnswer(w) /\ UNCHANGED notionFrame
    \/ \E w \in NotionWorkers, u \in NotionURLs : NotionLogSend(w, u) /\ UNCHANGED notionFrame
    \/ \E w \in NotionWorkers : NotionWriteSend(w) /\ UNCHANGED notionFrame
    \/ \E w \in NotionWorkers : NotionWriteAnswer(w) /\ UNCHANGED notionFrame

SpecNotion == InitNotion /\ [][NextNotion]_vars

(***************************************************************************)
(* The migration run once and then once more over the same export.         *)
(***************************************************************************)
migrateFrame == <<pipeFrame, seen_hashes, db_connection, storeVars, rateVars, single,
                  notionVars, durable, sysVars>>

InitMigrate ==
    /\ NoBatch
    /\ seen_hashes = {}
    /\ StoreUnused
    /\ DbConnected
    /\ LimiterUnused
    /\ single = NoUrlCall
    /\ NotionUnused
    /\ \E v \in ExportedPages, a \in ExportedPages, l \in ExportedLogs :
         migration = Exported(v, a, l)
    /\ durable = NothingDurable
    /\ CallUnused
    /\ ConnUnused

NextMigrate ==
    \/ MigrateVideo /\ UNCHANGED migrateFrame
    \/ MigrateArticle /\ UNCHANGED migrateFrame
    \/ MigrateLog /\ UNCHANGED migrateFrame
    \/ MigrateAgain /\ UNCHANGED migrateFrame

SpecMigrate == InitMigrate /\ [][NextMigrate]_vars

(***************************************************************************)
(* Two workers, one call each on the shared connection.                    *)
(***************************************************************************)
txnFrame == <<pipeFrame, seen_hashes, db_connection, storeVars, rateVars, single,
              notionVars, migration, sysVars>>

NextTxn ==
    \/ \E w \in DbWorkers, t \in Tables, title \in Titles :
         /\ returned[w] = NoCursor
         /\ UpsertExecute(w, t, w, title)
         /\ UNCHANGED <<txnFrame, auxDbVars, durable>>
    \/ \E w \in DbWorkers, action \in LogActions, result \in LogResults :
         /\ returned[w] = NoCursor
         /\ LogExecute(w, w, action, result)
         /\ UNCHANGED <<txnFrame, durable>>
    \/ \E w \in DbWorkers : UpsertFetchone(w) /\ UNCHANGED <<txnFrame, auxDbVars, durable>>
    \/ \E w \in DbWorkers : TxnCommit(w) /\ UNCHANGED txnFrame
    \/ \E w \in DbWorkers : TxnRaise(w) /\ UNCHANGED txnFrame

SpecTxn == InitDb /\ [][NextTxn]_vars

(***************************************************************************)
(* One batch call awaited by a caller whose loop already runs other tasks. *)
(***************************************************************************)
InitCall ==
    /\ NoBatch
    /\ seen_hashes = {}
    /\ StoreUnused
    /\ DbConnected
    /\ LimiterUnused
    /\ single = NoUrlCall
    /\ NotionUnused
    /\ migration = NoMigration
    /\ durable = NothingDurable
    /\ ConnUnused
    /\ callPc = "discover"
    /\ \E n \in 0..MaxTasks : all_tasks = CallerTasks(n)
    /\ executor = "none"
    /\ callExit = "none"

callFrame == <<pipeFrame, seen_hashes, db_connection, storeVars, dbVars, rateVars, single,
               notionVars, migration, durable, connVars>>

NextCall ==
    \/ Discover /\ UNCHANGED callFrame
    \/ GatherSpawn /\ UNCHANGED callFrame
    \/ \E k \in 1..(MaxTasks + NumItems) : TaskFinish(k) /\ UNCHANGED callFrame
    \/ GatherReturn /\ UNCHANGED callFrame
    \/ CleanupClose /\ UNCHANGED callFrame
    \/ CancelRemaining /\ UNCHANGED callFrame
    \/ ShutdownExecutors /\ UNCHANGED callFrame

SpecCall == InitCall /\ [][NextCall]_vars

(***************************************************************************)
(* Concurrent workers calling has_changed on a fresh dedup store.          *)
(***************************************************************************)
InitConn ==
    /\ NoBatch
    /\ seen_hashes = {}
    /\ StoreUnused
    /\ DbConnected
    /\ LimiterUnused
    /\ single = NoUrlCall
    /\ NotionUnused
    /\ migration = NoMigration
    /\ durable = NothingDurable
    /\ CallUnused
    /\ ConnFresh

connFrame == <<pipeFrame, seen_hashes, db_connection, storeVars, dbVars, rateVars, single,
               notionVars, migration, durable, lifeVars>>

NextConn ==
    \/ \E w \in StoreWorkers : GetConnEnter(w) /\ UNCHANGED connFrame
    \/ \E w \in StoreWorkers : Connected(w) /\ UNCHANGED connFrame
    \/ \E c \in StoreWorkers : Execute(c) /\ UNCHANGED connFrame
    \/ \E w \in StoreWorkers : EnsureDb(w) /\ UNCHANGED connFrame
    \/ \E w \in StoreWorkers : EnsureDbCommit(w) /\ UNCHANGED connFrame
    \/ \E w \in StoreWorkers : GetConnReturn(w) /\ UNCHANGED connFrame
    \/ \E w \in StoreWorkers : HasChangedReturn(w) /\ UNCHANGED connFrame
    \/ CloseShared /\ UNCHANGED connFrame

SpecConn == InitConn /\ [][NextConn]_vars

(***************************************************************************)
(* The rate limiter used by concurrent callers.                            *)
(***************************************************************************)
InitRate ==
    /\ NoBatch
    /\ seen_hashes = {}
    /\ StoreUnused
    /\ DbConnected
    /\ \E r \in 1..MaxRate, per \in 2..MaxPeriod : NewLimiter(r, per)
    /\ ExtUnused

NextRate ==
    \/ \E c \in Callers :
         AcquireEnter(c) /\ UNCHANGED <<pipeFrame, seen_hashes, db_connection, storeVars, dbVars, extVars>>
    \/ \E c \in Callers :
         AcquireWake(c) /\ UNCHANGED <<pipeFrame, seen_hashes, db_connection, storeVars, dbVars, extVars>>
    \/ Tick /\ UNCHANGED <<pipeFrame, seen_hashes, db_connection, storeVars, dbVars, extVars>>

SpecRate == InitRate /\ [][NextRate]_vars

(***************************************************************************)
(* The rate limiter called by one task at a time: every acquire() returns  *)
(* before the next one starts.                                             *)
(***************************************************************************)
NextRateSeq ==
    \/ \E c \in Callers :
         /\ \A d \in Callers : acquirePc[d] = "idle"
         /\ AcquireEnter(c)
         /\ UNCHANGED <<pipeFrame, seen_hashes, db_connection, storeVars, dbVars, extVars>>
    \/ \E c \in Callers :
         AcquireWake(c) /\ UNCHANGED <<pipeFrame, seen_hashes, db_connection, storeVars, dbVars, extVars>>
    \/ Tick /\ UNCHANGED <<pipeFrame, seen_hashes, db_connection, storeVars, dbVars, extVars>>

SpecRateSeq == InitRate /\ [][NextRateSeq]_vars

(***************************************************************************)
(* Properties.                                                             *)
(***************************************************************************)
Has(seq, x) == \E k \in 1..Len(seq) : seq[k] = x

IsPrefix(a, b) == Len(a) <= Len(b) /\ \A k \in 1..Len(a) : a[k] = b[k]

\* the call was awaited and returned without raising
Succeeded(i, call) == Has(stages[i], call) /\ call \notin failed[i]

\* every awaited step of the finally block completed
CleanupCompleted == batchPc = "done" /\ outcome.kind # "error"

\* C1: under any interleaving of the workers' upsert_video / upsert_article
\* calls on the shared connection, no content table holds two rows with the
\* same URL (nor two rows with the same id).
C1_OneRowPerUrl ==
    \A t \in Tables : \A k, l \in 1..Len(tables[t]) :
        (tables[t][k].url = tables[t][l].url \/ tables[t][k].id = tables[t][l].id)
            => k = l

\* two workers are inside an upsert of the same URL of the same table at the
\* same time, and the table holds that URL once, with the later title
C1_Witness ==
    /\ dbPc[1] = "executed" /\ dbPc[2] = "fetched"
    /\ cursor[1].table = "videos" /\ cursor[2].table = "videos"
    /\ cursor[1].url = cursor[2].url
    /\ Len(tables["videos"]) = 1
    /\ tables["videos"][1].title = "Second Video"
    /\ Len(tables["articles"]) = 2

\* C2 (as claimed): a batch in which some fetch was classified as blocked
\* ends, once cleanup has run, by raising FatalIngestionError, whatever the
\* log, summarize and write calls did.
C2_BlockedBatchRaisesFatal ==
    (CleanupCompleted /\ blockedOrder # <<>>) => outcome.kind = "fatal"

\* C3: at no time are more than `workers` items between the admission gate
\* and the end of their task (fetch start to write / dedup-store update end).
C3_AtMostWorkersInFlight == Cardinality(InFlight) <= workers

\* the budget is exhausted while an item still waits at the gate
C3_Witness ==
    /\ Cardinality(InFlight) = workers
    /\ \E i \in Items : pc[i] = "waiting"
    /\ \E i \in Items : pc[i] = "mark_processed"

\* C4: has_changed(u, h) answers true exactly when no mark_processed(u, .)
\* was made yet or the latest mark_processed(u, .) stored a hash other than h.
C4_HasChangedFollowsLastMark ==
    storeCall.op = "has_changed" =>
        storeCall.changed = (lastMarked[storeCall.url] # storeCall.hash)

\* has_changed answered true for a URL whose latest mark stored another hash
\* than the one asked about, while a different URL holds the asked hash
C4_Witness ==
    /\ storeCall.op = "has_changed"
    /\ storeCall.changed
    /\ lastMarked[storeCall.url] # None
    /\ \E u \in StoreURLs : u # storeCall.url /\ lastMarked[u] = storeCall.hash

\* C5: mark_processed is awaited for an item only after that item's fetch
\* returned content, has_changed answered "changed" and its upsert returned
\* without raising, all in this run.
C5_MarkOnlyAfterUpsert ==
    \A i \in Items :
        Has(stages[i], "mark_processed") =>
            /\ Succeeded(i, "fetch") /\ text[i] # None
            /\ changed[i] = "yes"
            /\ Succeeded(i, "upsert")
            /\ \E k, l \in 1..Len(stages[i]) :
                 k < l /\ stages[i][k] = "upsert" /\ stages[i][l] = "mark_processed"

\* one item was marked after its write, another one's upsert raised and its
\* task ended without mark_processed
C5_Witness ==
    /\ \E i \in Items : Succeeded(i, "mark_processed")
    /\ \E j \in Items : "upsert" \in failed[j] /\ pc[j] = "done"

\* the two runs fetched the same content and no call other than summarize
\* raised in either
C6_Scenario ==
    /\ Len(history) = 1
    /\ CleanupCompleted
    /\ history[1].outcome.kind # "error"
    /\ text[1] # None /\ (pipeline = "hackernews" => text[1] # 0)
    /\ history[1].text[1] = text[1]
    /\ history[1].raised \subseteq {"summarize"}
    /\ failed[1] \subseteq {"summarize"}

\* C6: two runs over one item with the same fetched content on a store that
\* starts empty: the first returns 1 with one upsert and a (write, ok) row,
\* the second returns 0 with no upsert and a (fetch, skip) row.
C6_SecondRunSkips ==
    C6_Scenario =>
        /\ history[1].outcome = [kind |-> "count", value |-> 1]
        /\ history[1].upserts[1] = 1
        /\ <<"write", "ok">> \in history[1].rows[1]
        /\ outcome = [kind |-> "count", value |-> 0]
        /\ ~Has(stages[1], "upsert")
        /\ Has(logs[1], <<"fetch", "skip">>)

C6_Witness == C6_Scenario /\ pipeline = "youtube" /\ history[1].upserts[1] = 1

\* C7: when no fetch was classified as blocked the try block of the batch
\* call yields a count between 0 and the number of items, for every failure
\* of the items' calls, and that count is what the caller receives once the
\* finally block has completed.
C7_CountWhenNotBlocked ==
    (batchPc \in {"finally", "done"} /\ blockedOrder = <<>>) =>
        /\ tryOutcome.kind = "count"
        /\ tryOutcome.value \in 0..nItems
        /\ CleanupCompleted => outcome = tryOutcome

\* a finished batch in which a fetch, an upsert and a log_event call raised
C7_Witness ==
    /\ CleanupCompleted
    /\ blockedOrder = <<>>
    /\ pipeline = "youtube"
    /\ \E i, j \in Items :
        /\ "fetch" \in failed[i] /\ "log_event" \in failed[i]
        /\ "upsert" \in failed[j] /\ "summarize" \in failed[j]

\* C8 (as claimed): an item that had not passed the admission gate when a
\* fetch was classified as blocked never has its fetch called afterwards, so
\* none of its calls (upsert included) is ever made.
C8_NoStartAfterBlocked == \A i \in lateStart : stages[i] = <<>>

\* C9 (as claimed): the fatal error the batch raises is the one of the item
\* whose blocked fetch was detected first in time (all blocked items having
\* raised their FatalIngestionError).
C9_FirstDetectedWins ==
    (/\ CleanupCompleted
     /\ outcome.kind = "fatal"
     /\ \A k \in 1..Len(blockedOrder) : results[blockedOrder[k]] = "Fatal")
        => outcome.value = blockedOrder[1]

\* C9 (amended): the fatal error the batch raises is the one of the first
\* item, in the order of the item list, whose task raised
\* FatalIngestionError.
C9_FirstInListWins ==
    (CleanupCompleted /\ outcome.kind = "fatal") =>
        /\ outcome.value \in Items
        /\ results[outcome.value] = "Fatal"
        /\ \A j \in Items : results[j] = "Fatal" => outcome.value <= j

\* two items raised FatalIngestionError and the one detected later in time
\* is the one delivered
C9_Witness ==
    /\ CleanupCompleted
    /\ outcome.kind = "fatal"
    /\ Len(blockedOrder) = 2
    /\ \A k \in 1..Len(blockedOrder) : results[blockedOrder[k]] = "Fatal"
    /\ outcome.value = blockedOrder[2]

\* the strict order of the calls of one item
StageOrder == <<"fetch", "has_changed", "summarize", "upsert", "mark_processed">>

\* C11: when the summarize call of an item raised, the fallback summary is
\* substituted and, unless the log_event call recording the error itself
\* raised, a (summarize, error) row is logged and the item goes on to its
\* upsert.
C11_SummarizeFailureFallsBack ==
    \A i \in Items :
        "summarize" \in failed[i] =>
            /\ summary_text[i] = "fallback"
            /\ \/ pc[i] = "summarize_error_log"
               \/ /\ ~Has(logs[i], <<"summarize", "error">>)
                  /\ "log_event" \in failed[i]
                  /\ pc[i] = "done" /\ results[i] = "False"
                  /\ ~Has(stages[i], "upsert")
               \/ /\ Has(logs[i], <<"summarize", "error">>)
                  /\ pc[i] = "upsert" \/ Has(stages[i], "upsert")

\* an item whose summarize call raised was written with the fallback summary
\* and counted, in both pipelines' shape of the run
C11_Witness ==
    \E i \in Items :
        /\ "summarize" \in failed[i]
        /\ Has(logs[i], <<"summarize", "error">>)
        /\ Succeeded(i, "upsert")
        /\ results[i] = "True"
        /\ summary_text[i] = "fallback"

\* the fetch of item i ended without content for a reason other than a block:
\* it raised, or (Hacker News) it returned no text
FetchFailedNotBlocked(i) ==
    /\ Has(stages[i], "fetch")
    /\ \A k \in 1..Len(blockedOrder) : blockedOrder[k] # i
    /\ \/ "fetch" \in failed[i]
       \/ pipeline = "hackernews" /\ text[i] \in {None, 0}

\* C12 (as claimed): in both pipelines an item whose fetch failed with a
\* non-blocked error has, once its task is done and its log_event call did
\* not itself raise, a (fetch, error) row, and no call after the fetch was
\* made for it.
C12_FetchErrorLogged ==
    \A i \in Items :
        (FetchFailedNotBlocked(i) /\ pc[i] = "done" /\ "log_event" \notin failed[i])
            => /\ Has(logs[i], <<"fetch", "error">>)
               /\ stages[i] = <<"fetch">>

\* C13: an item whose upsert raised is never marked in the dedup store and
\* never counted; once its task is done it has a (write, error) row unless
\* the log_event call itself raised, and the count the batch computes
\* leaves it out.
C13_WriteFailureRecoverable ==
    \A i \in Items :
        "upsert" \in failed[i] =>
            /\ ~Has(stages[i], "mark_processed")
            /\ results[i] \in {"pending", "False"}
            /\ pc[i] \in {"write_error_log", "done"}
            /\ (pc[i] = "done" /\ ~Has(logs[i], <<"write", "error">>))
                    => "log_event" \in failed[i]
            /\ tryOutcome.kind = "count" =>
                    tryOutcome.value <= Cardinality({j \in Items : "upsert" \notin failed[j]})

\* with one worker, the upsert of one item raised and was logged, the next
\* item was admitted and written afterwards, and the batch returned 1
C13_Witness ==
    /\ CleanupCompleted
    /\ outcome = [kind |-> "count", value |-> 1]
    /\ workers = 1
    /\ \E i, j \in Items :
        /\ "upsert" \in failed[i]
        /\ Has(logs[i], <<"write", "error">>)
        /\ i < j /\ results[j] = "True"

\* the dedup check of item i returned while the store held, for its URL, the
\* hash of the content just fetched
Unchanged(i) ==
    /\ Succeeded(i, "has_changed")
    /\ ~Has(stages[i], "mark_processed")
    /\ get_stored_hash(seen_hashes, url[i]) = content_hash(text[i])

\* C14: an item whose fetched content hash equals the stored hash makes no
\* call after the dedup check (no summarize, upsert or mark_processed), is
\* not counted, and once its task is done has a (fetch, skip) row unless the
\* log_event call itself raised.
C14_UnchangedIsSkipped ==
    \A i \in Items :
        Unchanged(i) =>
            /\ stages[i] = <<"fetch", "has_changed">>
            /\ pc[i] \in {"skip_log", "done"}
            /\ results[i] \in {"pending", "False"}
            /\ summary_text[i] = "unset"
            /\ (pc[i] = "done" /\ ~Has(logs[i], <<"fetch", "skip">>))
                    => "log_event" \in failed[i]

\* an unchanged item was skipped and logged while another item of the same
\* batch was written
C14_Witness ==
    \E i, j \in Items :
        /\ Unchanged(i) /\ pc[i] = "done"
        /\ logs[i] = << <<"fetch", "skip">> >>
        /\ results[j] = "True"

\* the try block of the batch computed a success count
CountComputed == batchPc \in {"finally", "done"} /\ tryOutcome.kind = "count"

C17_CleanupNeverRaises ==
    batchPc = "done" =>
        /\ cleaned = {CleanupSteps(pipeline)[k] : k \in 1..Len(CleanupSteps(pipeline))}
        /\ outcome = tryOutcome

\* number of acquire() calls that returned at a time in [from, from + per)
GrantsInWindow(from, per) ==
    LET RECURSIVE Sum(_)
        Sum(k) == IF k >= from + per \/ k > MaxTime THEN 0 ELSE grants[k] + Sum(k + 1)
    IN Sum(from)

\* C18 (as claimed): every window of length `period` holds at most `rate`
\* returns of acquire, for any number of concurrent callers.
C18_AtMostRatePerWindow ==
    \A from \in Times : GrantsInWindow(from, period) <= rate

\* C19 (as claimed): at most one caller at a time is between the start of
\* pruning and the append of its own timestamp, the sleep included.
C19_CriticalSectionExclusive ==
    Cardinality({c \in Callers : acquirePc[c] = "sleeping"}) <= 1

\* every upsert call that returned an id returned the id given to the
\* statement that first inserted its URL into its table
ReturnsInsertedId ==
    \A w \in DbWorkers :
        (returned[w].table \in Tables /\ returned[w].id # None) =>
            /\ inserted[returned[w].table][returned[w].url] # 0
            /\ returned[w].id = inserted[returned[w].table][returned[w].url]

\* C20 (as claimed): an upsert of a stored URL returns the id of the upsert
\* that first inserted it, and two different URLs never receive the same id,
\* whichever content tables they are written to.
C20_IdsUniqueAcrossWriter ==
    /\ ReturnsInsertedId
    /\ \A t1, t2 \in Tables : \A u1, u2 \in DbURLs :
          (u1 # u2 /\ inserted[t1][u1] # 0 /\ inserted[t2][u2] # 0)
              => inserted[t1][u1] # inserted[t2][u2]

\* C20 (amended): an upsert of a stored URL returns the id of the upsert
\* that first inserted it into that table, and two different URLs of the
\* same content table never receive the same id.
C20_IdsUniquePerTable ==
    /\ ReturnsInsertedId
    /\ \A t \in Tables : \A u1, u2 \in DbURLs :
          (u1 # u2 /\ inserted[t][u1] # 0 /\ inserted[t][u2] # 0)
              => inserted[t][u1] # inserted[t][u2]

\* a URL inserted first was upserted again after another URL had been
\* inserted: the call returned the first id although the sequence moved on,
\* while the other table gave the same id to a different URL
C20_Witness ==
    \E w \in DbWorkers, u \in DbURLs :
        /\ returned[w] = [table |-> "videos", url |-> u, id |-> 1]
        /\ Len(tables["videos"]) = 2
        /\ sqlite_sequence["videos"] = 3
        /\ \E u2 \in DbURLs : u2 # u /\ inserted["articles"][u2] = 1

\* the fields an upsert call passes for a record of table t
MutableFields(t) ==
    {"title", "summary", "source", "published_at", "last_updated_at"}
        \cup (IF t = "videos" THEN {"thumbnail_url"} ELSE {"body"})

\* C21: the single record of a URL carries, in every mutable field (title,
\* summary, thumbnail/body, source, timestamps), the value passed by the
\* latest upsert executed for that URL.
C21_LastUpsertWins ==
    \A t \in Tables : \A k \in 1..Len(tables[t]) :
        LET row == tables[t][k]
            last == Excluded(t, row.url, UpsertArgs(lastUpsert[t][row.url]))
        IN /\ lastUpsert[t][row.url] \in Titles
           /\ \A c \in MutableFields(t) : row[c] = last[c]
           /\ row.updated_at = last.updated_at

\* a URL was upserted three times with alternating values and both tables
\* hold an overwritten record
C21_Witness ==
    /\ sqlite_sequence["videos"] = 3
    /\ Len(tables["videos"]) = 1
    /\ tables["videos"][1].summary = "First summary"
    /\ tables["videos"][1].created_at = 2
    /\ Len(tables["articles"]) = 1
    /\ tables["articles"][1].body = "Second body"
    /\ sqlite_sequence["articles"] = 2

\* C22: a log_event call whose action is outside {discover, fetch, summarize,
\* write} or whose result is outside {ok, skip, error} raises and leaves the
\* ingestion_logs table as it was; no stored row carries a value outside
\* the two enumerations.
C22_InvalidLogEventRejected ==
    /\ [][\A u \in DbURLs, action \in LogActions, result \in LogResults :
            (LogExecute(1, u, action, result)
             /\ ~(action \in {"discover", "fetch", "summarize", "write"}
                  /\ result \in {"ok", "skip", "error"}))
            => /\ ingestion_logs' = ingestion_logs
               /\ returned'[1] = [table |-> "ingestion_logs", url |-> u, id |-> None]]_vars
    /\ [](\A k \in 1..Len(ingestion_logs) :
            /\ ingestion_logs[k].action \in {"discover", "fetch", "summarize", "write"}
            /\ ingestion_logs[k].result \in {"ok", "skip", "error"})

\* an invalid log_event has raised while the table already held a row
C22_Witness ==
    /\ returned[1] = [table |-> "ingestion_logs", url |-> 1, id |-> None]
    /\ Len(ingestion_logs) = 1

\* C23: every successful log_event appends exactly one row whose id no
\* earlier row has, and no step of the writer (upsert, log_event, get_recent,
\* search) changes or removes a row that is already in ingestion_logs.
C23_LogAppendOnly ==
    [][/\ IsPrefix(ingestion_logs, ingestion_logs')
       /\ Len(ingestion_logs') <= Len(ingestion_logs) + 1
       /\ \A u \in DbURLs, action \in LogActions, result \in LogResults :
            (LogExecute(1, u, action, result) /\ dbPc'[1] = "executed")
            => /\ Len(ingestion_logs') = Len(ingestion_logs) + 1
               /\ \A k \in 1..Len(ingestion_logs) :
                    ingestion_logs[k].id # ingestion_logs'[Len(ingestion_logs')].id]_vars

\* two log events were stored, content was upserted and a query has run
C23_Witness ==
    /\ Len(ingestion_logs) = 2
    /\ \E t \in Tables : tables[t] # <<>>
    /\ queryResult.op # "none"

\* C24: the seen_hashes table is a map from URL to hash: it never holds two
\* rows for one URL, get_stored_hash(u) is the hash of the latest
\* mark_processed(u, .) or None when there was none, and a get_stored_hash or
\* has_changed call leaves the rows as they were.
C24_StoreIsMap ==
    /\ [](\A u \in StoreURLs :
            /\ Cardinality({r \in seen_hashes : r[1] = u}) <= 1
            /\ get_stored_hash(seen_hashes, u) = lastMarked[u])
    /\ [](storeCall.op = "get_stored_hash" => storeCall.ret = lastMarked[storeCall.url])
    /\ [][((\E u \in StoreURLs : GetStoredHashCall(u))
            \/ (\E u \in StoreURLs, h \in Hashes : HasChangedCall(u, h)))
           => seen_hashes' = seen_hashes]_vars

\* get_stored_hash answered for a URL that was marked, with every URL of the
\* store marked and two of them holding the same hash
C24_Witness ==
    /\ storeCall.op = "get_stored_hash"
    /\ storeCall.ret # None
    /\ Cardinality(seen_hashes) = Cardinality(StoreURLs)
    /\ \E u, v \in StoreURLs : u # v /\ lastMarked[u] = lastMarked[v]

\* C25: a call of the single-item variant with dry_run set never awaits
\* summarize, upsert or log_event and leaves the dedup store as it found it,
\* whatever the fetch does.
C25_DryRunOnlyFetches ==
    single.dry_run =>
        /\ \A k \in 1..Len(single.calls) :
              single.calls[k] \notin {"summarize", "upsert", "log_event", "mark_processed"}
        /\ seen_hashes = single.store0

\* C26: with upsert calls on the hosted-API writer that do not overlap, a
\* collection never holds two pages for one URL: the first call for a URL
\* creates its page and every later call finds and updates that page.
C26_OnePagePerUrl ==
    \A db \in NotionDbs, u \in NotionURLs :
        Cardinality({k \in 1..Len(notion_pages[db]) : notion_pages[db][k].url = u}) <= 1

C28_SearchFollowsContent ==
    [][\A t \in Tables, query \in Queries :
         (Search(t, query) /\ \A w \in DbWorkers : dbPc[w] = "idle")
         => queryResult'.rows =
              SelectSeq(tables[t], LAMBDA row : query \in FtsDocument(t, row).tokens)]_vars

\* C29: get_recent_videos(limit) and get_recent_articles(limit) return
\* min(limit, number of stored rows) distinct stored rows, newest publish
\* time first, and no row left out has a later publish time than a row
\* returned.
C29_RecentNewestFirst ==
    [][\A t \in Tables, limit \in Limits :
         GetRecent(t, limit) =>
            LET r == queryResult'.rows
                ids == {r[k].id : k \in 1..Len(r)}
                \* a row without a publish time is later than no row
                after(a, b) == a.published_at # None
                               /\ (b.published_at = None \/ a.published_at > b.published_at)
            IN  /\ Len(r) = IF limit < Len(tables[t]) THEN limit ELSE Len(tables[t])
                /\ Cardinality(ids) = Len(r)
                /\ \A k \in 1..Len(r) : \E j \in 1..Len(tables[t]) : tables[t][j] = r[k]
                /\ \A i, j \in 1..Len(r) :
                     i < j => ~after(r[j], r[i])
                /\ \A j \in 1..Len(tables[t]) :
                     tables[t][j].id \notin ids =>
                        \A k \in 1..Len(r) :
                           ~after(tables[t][j], r[k])]_vars

\* a call returned two of three stored rows: the undated row, stored first,
\* was left out and the rows came back in the reverse of their table order
C29_Witness ==
    /\ queryResult.op = "get_recent"
    /\ Len(queryResult.rows) = 2
    /\ Len(tables[queryResult.table]) = 3
    /\ tables[queryResult.table][1].published_at = None
    /\ queryResult.rows[1] = tables[queryResult.table][3]
    /\ queryResult.rows[2] = tables[queryResult.table][2]

\* C30: when the migration has run a second time over the same exported
\* videos, articles and log entries, the tables videos, articles and
\* ingestion_logs are as the first run left them.
C30_MigrationIdempotent ==
    (migration.run = 2 /\ migration.phase = "done") =>
        /\ tables = migration.once.tables
        /\ ingestion_logs = migration.once.ingestion_logs

\* C31: a call of the single-item variant ends with 0, 1 or a
\* FatalIngestionError; when its upsert raised, a (write, error) row was
\* logged and the call returned 0.
C31_SingleFollowsBatchStages ==
    single.pc = "done" =>
        /\ single.ret \in {"0", "1", "Fatal"}
        /\ "upsert" \in single.failed =>
              /\ \E k \in 1..Len(single.logs) : single.logs[k] = <<"write", "error">>
              /\ single.ret = "0"

\* C32: when acquire() calls do not overlap, every window of length `period`
\* holds at most `rate` grants; the retained timestamps are in order, never
\* more than `rate` and never in the future, and a call that slept was due
\* `period` after a grant that was really made.
C32_SequentialWithinRate ==
    /\ \A from \in Times : GrantsInWindow(from, period) <= rate
    /\ \A k \in 1..Len(tokens) : tokens[k] <= monotonic
    /\ \A k \in 1..(Len(tokens) - 1) : tokens[k] <= tokens[k + 1]
    /\ Len(tokens) <= rate
    /\ \A c \in Callers :
         (acquirePc[c] = "idle" /\ wakeAt[c] > 0) => grants[wakeAt[c] - period] >= 1

\* a call found `rate` unexpired grants, slept, and recorded its grant at or
\* after the time its sleep was due
C32_Witness ==
    /\ \E c \in Callers :
         /\ wakeAt[c] > 0
         /\ acquirePc[c] = "idle"
         /\ tokens # <<>>
         /\ tokens[Len(tokens)] >= wakeAt[c]
    /\ \A c \in Callers : acquirePc[c] = "idle"

\* C33: a worker's statement becomes durable only through that worker's own
\* commit: when a worker's upsert or log_event was reported as failed, no
\* row for that worker's URL is durable.
C33_OwnTransaction ==
    \A w \in DbWorkers :
        (returned[w] # NoCursor /\ returned[w].id = None) =>
            /\ \A t \in Tables : ~HasUrl(durable.tables[t], w)
            /\ \A k \in 1..Len(durable.ingestion_logs) :
                 durable.ingestion_logs[k].item_url # w

\* C34: the cleanup of the batch call never cancels a task that the caller
\* had created in the event loop before it awaited the call.
C34_CallerTasksNotCancelled ==
    \A k \in DOMAIN all_tasks :
        all_tasks[k].origin = "caller" => all_tasks[k].state # "cancelled"

\* C39: when the batch call has ended, on whatever path, a collector pool
\* that discovery created has been shut down.
C39_CollectorPoolShutDown == callPc = "done" => executor # "running"

\* C35: the dedup store never has more than one open connection, and once
\* close_db has run after the workers no connection is left open.
C35_OneSharedConnection ==
    /\ Cardinality(connections) <= 1
    /\ ((\A w \in StoreWorkers : getConnPc[w] = "done") /\ shared_connection = None)
          => connections = {}

\* C36: no worker's SELECT on seen_hashes is executed before the table exists.
C36_SchemaBeforeUse == \A w \in StoreWorkers : selected[w] # "no such table"

\* C37: two items of one batch with the same URL and the same fetched text
\* are not both upserted, and the count of the run counts the URL once.
C37_DuplicateUpsertedOnce ==
    \A i \in Items, j \in Items :
        (i < j /\ url[i] = url[j] /\ text[i] # None /\ text[i] = text[j]) =>
            /\ ~(Succeeded(i, "upsert") /\ Succeeded(j, "upsert"))
            /\ tryOutcome.kind = "count" => tryOutcome.value <= 1

\* C40: under every worker budget the batch call returns or raises.
C40_BatchCompletes == <>(batchPc = "done")

\* C38: when a single-item call that opened the dedup store has ended, the
\* store connection is closed.
C38_StoreClosedOnExit ==
    (single.pc = "done" /\ Has(single.calls, "has_changed")) => db_connection = "closed"

\* C10: the calls an item has awaited are, in order, an initial part of
\* fetch, dedup check, summarize, upsert, dedup-store update: none is made
\* before the previous one has ended, however the items interleave.
C10_StagesInOrder == \A i \in Items : IsPrefix(stages[i], StageOrder)

\* one item went through all five calls while another was between its own
C10_Witness ==
    \E i, j \in Items :
        /\ i # j
        /\ stages[i] = StageOrder
        /\ stages[j] = <<"fetch", "has_changed", "summarize">>
        /\ "summarize" \in failed[j]

====
